---- MODULE Spec2Model ----
(***************************************************************************)
(* SnapReview-Server: the tolerant LLM-response parser (parseAIResponse), *)
(* the evaluation call (evaluateCodeComplete) and the deadline race of    *)
(* the evaluate route (withEvaluationTimeout, POST /api/evaluate).        *)
(*                                                                         *)
(* A text is a sequence of tokens.  Every character the code looks at      *)
(* individually (braces, quote, backslash, backtick, colon, comma,        *)
(* brackets, digits, whitespace) is one token; a run of letters is one    *)
(* token (a word), because no step of the code looks inside a word.       *)
(***************************************************************************)
EXTENDS Integers, Sequences, FiniteSets, TLC

(***************************************************************************)
(* JavaScript string primitives, with JavaScript's 0-based indices.        *)
(***************************************************************************)
WhiteSpace == {" ", "\n", "\t", "\r"}

Max(a, b) == IF a > b THEN a ELSE b
Min(a, b) == IF a < b THEN a ELSE b

\* String.prototype.indexOf(c): first 0-based index of c, -1 when absent.
IndexOf(s, c) ==
  IF \E k \in 1..Len(s) : s[k] = c
  THEN (CHOOSE k \in 1..Len(s) : s[k] = c /\ \A j \in 1..(k - 1) : s[j] # c) - 1
  ELSE -1

\* String.prototype.lastIndexOf(c): last 0-based index of c, -1 when absent.
LastIndexOf(s, c) ==
  IF \E k \in 1..Len(s) : s[k] = c
  THEN (CHOOSE k \in 1..Len(s) : s[k] = c /\ \A j \in (k + 1)..Len(s) : s[j] # c) - 1
  ELSE -1

\* String.prototype.slice(a, b) for a, b >= 0: the tokens at [a, b).
Slice(s, a, b) == SubSeq(s, a + 1, Min(b, Len(s)))

\* String.prototype.substring(a, b): negative bounds are 0, bounds are swapped
\* when a > b.
Substring(s, a, b) ==
  LET a0 == Min(Max(a, 0), Len(s))
      b0 == Min(Max(b, 0), Len(s))
  IN  SubSeq(s, Min(a0, b0) + 1, Max(a0, b0))

\* String.prototype.trim()
RECURSIVE TrimStart(_)
TrimStart(s) ==
  IF s # <<>> /\ s[1] \in WhiteSpace THEN TrimStart(Tail(s)) ELSE s

RECURSIVE TrimEnd(_)
TrimEnd(s) ==
  IF s # <<>> /\ s[Len(s)] \in WhiteSpace THEN TrimEnd(SubSeq(s, 1, Len(s) - 1)) ELSE s

Trim(s) == TrimEnd(TrimStart(s))

\* (s.match(/"/g) || []).length: the number of quote characters, escaped or not.
QuoteCount(s) == Cardinality({k \in 1..Len(s) : s[k] = "\""})

(***************************************************************************)
(* JSON values.  Every value has the same four fields, so that values of   *)
(* different JSON types can be compared: t is the type, n the integer part *)
(* of a number, s the tokens of a string (for a number: its fraction and   *)
(* exponent lexeme), m the members of an object or the items of an array   *)
(* (an item has the empty key).                                            *)
(***************************************************************************)
JNull == [t |-> "null", n |-> 0, s |-> <<>>, m |-> <<>>]
JTrue == [t |-> "true", n |-> 0, s |-> <<>>, m |-> <<>>]
JFalse == [t |-> "false", n |-> 0, s |-> <<>>, m |-> <<>>]
JNum(n) == [t |-> "number", n |-> n, s |-> <<>>, m |-> <<>>]
JNumLex(n, lex) == [t |-> "number", n |-> n, s |-> lex, m |-> <<>>]
JStr(s) == [t |-> "string", n |-> 0, s |-> s, m |-> <<>>]
JArr(items) == [t |-> "array", n |-> 0, s |-> <<>>, m |-> items]
JObj(members) == [t |-> "object", n |-> 0, s |-> <<>>, m |-> members]
\* the value of a property that is absent
JUndefined == [t |-> "undefined", n |-> 0, s |-> <<>>, m |-> <<>>]

Member(k, v) == [k |-> k, v |-> v]
Item(v) == [k |-> <<>>, v |-> v]

HasKey(o, k) == \E j \in 1..Len(o.m) : o.m[j].k = k

\* o[k]: undefined when o has no such own property (o an object)
Get(o, k) ==
  IF o.t = "object" /\ HasKey(o, k)
  THEN o.m[CHOOSE j \in 1..Len(o.m) : o.m[j].k = k].v
  ELSE JUndefined

\* o[k] = v: replaces the value in place, or appends a new property
Put(o, k, v) ==
  IF HasKey(o, k)
  THEN [o EXCEPT !.m = [j \in 1..Len(o.m) |-> IF o.m[j].k = k THEN Member(k, v) ELSE o.m[j]]]
  ELSE [o EXCEPT !.m = Append(o.m, Member(k, v))]

Digits == {"0", "1", "2", "3", "4", "5", "6", "7", "8", "9"}

DigitVal(d) ==
  CASE d = "0" -> 0 [] d = "1" -> 1 [] d = "2" -> 2 [] d = "3" -> 3 [] d = "4" -> 4
    [] d = "5" -> 5 [] d = "6" -> 6 [] d = "7" -> 7 [] d = "8" -> 8 [] d = "9" -> 9

\* typeof v === 'number'
IsNumber(v) == v.t = "number"

\* typeof v === 'object' (arrays and null included)
TypeofObject(v) == v.t \in {"object", "array", "null"}

\* JavaScript truthiness: undefined, null, false, 0 and "" are falsy.
Truthy(v) ==
  CASE v.t \in {"undefined", "null", "false"} -> FALSE
    [] v.t = "number" -> v.n # 0 \/ \E k \in 1..Len(v.s) : v.s[k] \in (Digits \ {"0"})
    [] v.t = "string" -> v.s # <<>>
    [] OTHER -> TRUE

(***************************************************************************)
(* JSON.parse: a recursive-descent parser over the tokens.  A parse step   *)
(* returns ok, the value and the 1-based position after it.                *)
(***************************************************************************)
Fail == [ok |-> FALSE, v |-> JNull, i |-> 0]
Ok(v, i) == [ok |-> TRUE, v |-> v, i |-> i]

JsonWs == {" ", "\n", "\t", "\r"}
ControlChars == {"\n", "\t", "\r"}

\* the character an escape sequence \x stands for; a word after the backslash
\* is an escape when its first letter is one of b f n r t
EscapeOK(x) ==
  x \in {"\"", "\\", "/", "b", "f", "n", "r", "t", "null", "true", "false"}

Unescape(x) ==
  CASE x = "n" -> "\n" [] x = "t" -> "\t" [] x = "r" -> "\r" [] x = "f" -> "\f"
    [] x = "b" -> "<BS>" [] x = "null" -> "\null" [] x = "true" -> "\true"
    [] x = "false" -> "\false" [] OTHER -> x

RECURSIVE SkipWs(_, _)
SkipWs(s, i) == IF i <= Len(s) /\ s[i] \in JsonWs THEN SkipWs(s, i + 1) ELSE i

\* the characters of a string literal, i the position after the opening quote
RECURSIVE ParseChars(_, _, _)
ParseChars(s, i, acc) ==
  IF i > Len(s) THEN Fail
  ELSE IF s[i] = "\"" THEN Ok(JStr(acc), i + 1)
  ELSE IF s[i] = "\\"
       THEN IF i + 1 <= Len(s) /\ EscapeOK(s[i + 1])
            THEN ParseChars(s, i + 2, Append(acc, Unescape(s[i + 1])))
            ELSE Fail
  ELSE IF s[i] \in ControlChars THEN Fail
  ELSE ParseChars(s, i + 1, Append(acc, s[i]))

\* the end (exclusive) of the run of digits that starts at i
RECURSIVE DigitsEnd(_, _)
DigitsEnd(s, i) == IF i <= Len(s) /\ s[i] \in Digits THEN DigitsEnd(s, i + 1) ELSE i

RECURSIVE DigitsValue(_, _, _, _)
DigitsValue(s, i, j, acc) ==
  IF i >= j THEN acc ELSE DigitsValue(s, i + 1, j, 10 * acc + DigitVal(s[i]))

\* a number: -?(0|[1-9][0-9]*)(\.[0-9]+)?([eE][+-]?[0-9]+)?
\* i1 is the start of the integer part, i2 its end, i3 the end of the
\* fraction, e1 the start of the digits of the exponent, i4 their end
IsAt(s, i, chars) == i <= Len(s) /\ s[i] \in chars

NumberEnd(s, neg, i1, i2, i3, e1, i4) ==
  IF IsAt(s, i3, {"e", "E"}) /\ i4 = e1 THEN Fail
  ELSE Ok(JNumLex(IF neg THEN 0 - DigitsValue(s, i1, i2, 0) ELSE DigitsValue(s, i1, i2, 0),
                  SubSeq(s, i2, i4 - 1)), i4)

NumberExponent(s, neg, i1, i2, i3, e1) ==
  NumberEnd(s, neg, i1, i2, i3, e1, IF IsAt(s, i3, {"e", "E"}) THEN DigitsEnd(s, e1) ELSE i3)

NumberFraction(s, neg, i1, i2, i3) ==
  IF IsAt(s, i2, {"."}) /\ i3 = i2 + 1 THEN Fail
  ELSE NumberExponent(s, neg, i1, i2, i3,
                      IF IsAt(s, i3, {"e", "E"}) /\ IsAt(s, i3 + 1, {"+", "-"})
                      THEN i3 + 2 ELSE i3 + 1)

NumberInteger(s, neg, i1, i2) ==
  IF i2 = i1 THEN Fail
  ELSE NumberFraction(s, neg, i1, i2, IF IsAt(s, i2, {"."}) THEN DigitsEnd(s, i2 + 1) ELSE i2)

NumberSign(s, neg, i1) ==
  NumberInteger(s, neg, i1, IF IsAt(s, i1, {"0"}) THEN i1 + 1 ELSE DigitsEnd(s, i1))

ParseNumber(s, i) == NumberSign(s, s[i] = "-", IF s[i] = "-" THEN i + 1 ELSE i)

RECURSIVE ParseValue(_, _)
RECURSIVE ParseMembers(_, _, _)
RECURSIVE ParseItems(_, _, _)

\* after a member at d: the end of the object, or a comma and the next member
AfterMember(s, obj, d) ==
  IF d > Len(s) THEN Fail
  ELSE IF s[d] = "}" THEN Ok(obj, d + 1)
  ELSE IF s[d] = "," THEN ParseMembers(s, SkipWs(s, d + 1), obj)
  ELSE Fail

\* the value val of the member with key k was parsed
AfterMemberValue(s, acc, k, val) ==
  IF ~val.ok THEN Fail ELSE AfterMember(s, Put(acc, k, val.v), SkipWs(s, val.i))

\* the colon at c, then the value
AfterMemberKey(s, acc, k, c) ==
  IF c > Len(s) \/ s[c] # ":" THEN Fail ELSE AfterMemberValue(s, acc, k, ParseValue(s, c + 1))

\* the key was parsed
MemberKey(s, acc, key) ==
  IF ~key.ok THEN Fail ELSE AfterMemberKey(s, acc, key.v.s, SkipWs(s, key.i))

\* "key" : value (, "key" : value)* }   with i at the first key
ParseMembers(s, i, acc) ==
  IF i > Len(s) \/ s[i] # "\"" THEN Fail ELSE MemberKey(s, acc, ParseChars(s, i + 1, <<>>))

\* after an item at d: the end of the array, or a comma and the next item
AfterItem(s, items, d) ==
  IF d > Len(s) THEN Fail
  ELSE IF s[d] = "]" THEN Ok(JArr(items), d + 1)
  ELSE IF s[d] = "," THEN ParseItems(s, d + 1, items)
  ELSE Fail

\* the item val was parsed
ItemValue(s, acc, val) ==
  IF ~val.ok THEN Fail ELSE AfterItem(s, Append(acc, Item(val.v)), SkipWs(s, val.i))

\* value (, value)* ]   with i at the first value
ParseItems(s, i, acc) == ItemValue(s, acc, ParseValue(s, i))

\* the value that starts at j, which is not whitespace
ValueAt(s, j) ==
  IF j > Len(s) THEN Fail
  ELSE IF s[j] = "{"
       THEN IF IsAt(s, SkipWs(s, j + 1), {"}"}) THEN Ok(JObj(<<>>), SkipWs(s, j + 1) + 1)
            ELSE ParseMembers(s, SkipWs(s, j + 1), JObj(<<>>))
  ELSE IF s[j] = "["
       THEN IF IsAt(s, SkipWs(s, j + 1), {"]"}) THEN Ok(JArr(<<>>), SkipWs(s, j + 1) + 1)
            ELSE ParseItems(s, SkipWs(s, j + 1), <<>>)
  ELSE IF s[j] = "\"" THEN ParseChars(s, j + 1, <<>>)
  ELSE IF s[j] \in Digits \cup {"-"} THEN ParseNumber(s, j)
  ELSE IF s[j] = "true" THEN Ok(JTrue, j + 1)
  ELSE IF s[j] = "false" THEN Ok(JFalse, j + 1)
  ELSE IF s[j] = "null" THEN Ok(JNull, j + 1)
  ELSE Fail

\* a value, leading whitespace skipped
ParseValue(s, i) == ValueAt(s, SkipWs(s, i))

\* the value r must be followed by nothing but whitespace
WholeText(text, r) == IF r.ok /\ SkipWs(text, r.i) = Len(text) + 1 THEN r ELSE Fail

\* JSON.parse(text): ok is FALSE where JSON.parse throws a SyntaxError
JsonParse(text) == WholeText(text, ParseValue(text, 1))

(***************************************************************************)
(* parseAIResponse (src/lib/ai/prompts.ts:322-475)                         *)
(***************************************************************************)
\* a response that is not a string (response.trim is then not a function)
NonString == <<"<not a string>">>

\* the record of the catch block
FallbackSummary == <<"Unable to complete automated evaluation. Please try again.">>

FallbackScores ==
  JObj(<<Member(<<"readability">>, JNum(5)), Member(<<"efficiency">>, JNum(5)),
         Member(<<"maintainability">>, JNum(5)), Member(<<"security">>, JNum(5))>>)

FallbackRecord ==
  JObj(<<Member(<<"overall_score">>, JNum(50)),
         Member(<<"scores">>, FallbackScores),
         Member(<<"summary">>, JStr(FallbackSummary)),
         Member(<<"strengths">>, JArr(<<>>)),
         Member(<<"improvements">>, JArr(<<>>)),
         Member(<<"refactored_code">>, JStr(<<>>)),
         Member(<<"best_practices">>, JArr(<<>>)),
         Member(<<"resources">>, JArr(<<>>))>>)

\* one backtick character
Backtick == "<backtick>"

\* cleaned.startsWith of three backticks
StartsWithFence(s) ==
  Len(s) >= 3 /\ s[1] = Backtick /\ s[2] = Backtick /\ s[3] = Backtick

EndsWithFence(s) ==
  Len(s) >= 4 /\ s[Len(s) - 3] = "\n" /\ s[Len(s) - 2] = Backtick
              /\ s[Len(s) - 1] = Backtick /\ s[Len(s)] = Backtick
\* StripOpeningFence with a pattern that also takes the character after the fence
StripOpeningFenceGreedy(s) ==
  LET a == IF Len(s) >= 4 /\ s[4] = "json" THEN 4 ELSE 3
      b == IF Len(s) >= a + 1 /\ s[a + 1] = "\n" THEN a + 1 ELSE a
  IN  SubSeq(s, b + 2, Len(s))

\* cleaned.replace(/^FENCE(?:json)?\n?/, '') for a text that starts with the
\* fence (three backticks)
StripOpeningFence(s) ==
  LET a == IF Len(s) >= 4 /\ s[4] = "json" THEN 4 ELSE 3
      b == IF Len(s) >= a + 1 /\ s[a + 1] = "\n" THEN a + 1 ELSE a
  IN  SubSeq(s, b + 1, Len(s))

\* .replace(/\nFENCE$/, '')
StripClosingFence(s) == IF EndsWithFence(s) THEN SubSeq(s, 1, Len(s) - 4) ELSE s

\* lines 326-329
StripFence(cleaned) ==
  IF StartsWithFence(cleaned) THEN StripClosingFence(StripOpeningFence(cleaned)) ELSE cleaned

\* lines 334-336
SliceBraces(cleaned, firstBrace, lastBrace) ==
  IF firstBrace # -1 /\ lastBrace # -1
  THEN Slice(cleaned, firstBrace, lastBrace + 1)
  ELSE cleaned

\* lines 331-336: keep the span from the first '{' to the last '}'
ExtractBraces(cleaned) == SliceBraces(cleaned, IndexOf(cleaned, "{"), LastIndexOf(cleaned, "}"))

\* lines 354-358: the scanner's variables before the loop
ScanInit ==
  [braceCount |-> 0, inString |-> FALSE, escapeNext |-> FALSE, endIdx |-> -1,
   lastValidEndIdx |-> -1]

\* the loop body without the test of inString: braces count inside strings too
ScanCharInStrings(st, char, i) ==
  IF st.escapeNext THEN [st EXCEPT !.escapeNext = FALSE]
  ELSE IF char = "\\" THEN [st EXCEPT !.escapeNext = TRUE]
  ELSE IF char = "\"" THEN [st EXCEPT !.inString = ~st.inString]
  ELSE IF char = "{" THEN [st EXCEPT !.braceCount = st.braceCount + 1]
  ELSE IF char = "}"
       THEN [st EXCEPT !.braceCount = st.braceCount - 1,
                       !.lastValidEndIdx = i,
                       !.endIdx = IF st.braceCount - 1 = 0 THEN i ELSE st.endIdx]
  ELSE st

\* lines 361-389: one iteration of the loop, char = cleaned[i]
ScanChar(st, char, i) ==
  IF st.escapeNext THEN [st EXCEPT !.escapeNext = FALSE]
  ELSE IF char = "\\" THEN [st EXCEPT !.escapeNext = TRUE]
  ELSE IF char = "\"" THEN [st EXCEPT !.inString = ~st.inString]
  ELSE IF ~st.inString /\ char = "{" THEN [st EXCEPT !.braceCount = st.braceCount + 1]
  ELSE IF ~st.inString /\ char = "}"
       THEN [st EXCEPT !.braceCount = st.braceCount - 1,
                       !.lastValidEndIdx = i,
                       !.endIdx = IF st.braceCount - 1 = 0 THEN i ELSE st.endIdx]
  ELSE st

\* the loop without its break: the scan goes on after the depth returned to zero
RECURSIVE ScanWithoutBreak(_, _, _)
ScanWithoutBreak(cleaned, i, st) ==
  IF i >= Len(cleaned) THEN st
  ELSE ScanWithoutBreak(cleaned, i + 1, ScanChar(st, cleaned[i + 1], i))

\* lines 360-390: the loop from i, left by the break once endIdx is set
RECURSIVE Scan(_, _, _)
Scan(cleaned, i, st) ==
  IF i >= Len(cleaned) \/ st.endIdx # -1 THEN st
  ELSE Scan(cleaned, i + 1, ScanChar(st, cleaned[i + 1], i))

\* lines 399-414: the closing of an unterminated string
CloseString(fixedJson, stringCount, lastQuoteIdx) ==
  IF /\ stringCount % 2 # 0 /\ lastQuoteIdx # -1
     /\ QuoteCount(Substring(fixedJson, 0, lastQuoteIdx)) % 2 = 1
  THEN Substring(fixedJson, 0, LastIndexOf(fixedJson, "}")) \o <<"\"", "}">>
  ELSE fixedJson

\* lines 416-420: one '}' for every brace that is still open
CloseBraces(fixedJson, braceCount) == fixedJson \o [k \in 1..braceCount |-> "}"]

\* lines 397-420 for the candidate fixedJson
RepairCandidate(fixedJson, braceCount) ==
  CloseBraces(CloseString(fixedJson, QuoteCount(fixedJson), LastIndexOf(fixedJson, "\"")),
              braceCount)

\* lines 395-422: close an unterminated object
RepairTruncated(cleaned, startIdx, st) ==
  RepairCandidate(Substring(cleaned, startIdx, st.lastValidEndIdx + 1), st.braceCount)

\* lines 392-427 with a guard that forgets the case of no '}' at all
AfterScanNoEndGuard(cleaned, startIdx, st) ==
  IF st.endIdx = -1 /\ st.braceCount > 0
  THEN [ok |-> TRUE,
        text |-> RepairTruncated(cleaned, startIdx,
                   IF st.lastValidEndIdx = -1
                   THEN [st EXCEPT !.lastValidEndIdx = Len(cleaned) - 1] ELSE st),
        how |-> "repaired"]
  ELSE IF st.endIdx # -1
       THEN [ok |-> TRUE, text |-> Substring(cleaned, startIdx, st.endIdx + 1),
             how |-> "balanced"]
  ELSE [ok |-> FALSE, text |-> <<>>, how |-> "no-end"]

\* lines 392-427 with the balanced span cut one character short
AfterScanShort(cleaned, startIdx, st) ==
  IF st.endIdx = -1 /\ st.lastValidEndIdx # -1 /\ st.braceCount > 0
  THEN [ok |-> TRUE, text |-> RepairTruncated(cleaned, startIdx, st), how |-> "repaired"]
  ELSE IF st.endIdx # -1
       THEN [ok |-> TRUE, text |-> Substring(cleaned, startIdx, st.endIdx),
             how |-> "balanced"]
  ELSE [ok |-> FALSE, text |-> <<>>, how |-> "no-end"]

\* lines 392-427: the text that is parsed the second time, st the scanner after
\* the loop; ok is FALSE where the code rethrows parseError
AfterScan(cleaned, startIdx, st) ==
  IF st.endIdx = -1 /\ st.lastValidEndIdx # -1 /\ st.braceCount > 0
  THEN [ok |-> TRUE, text |-> RepairTruncated(cleaned, startIdx, st), how |-> "repaired"]
  ELSE IF st.endIdx # -1
       THEN [ok |-> TRUE, text |-> Substring(cleaned, startIdx, st.endIdx + 1),
             how |-> "balanced"]
  ELSE [ok |-> FALSE, text |-> <<>>, how |-> "no-end"]

\* lines 348-390: the scan from the first '{'
ScanFromBrace(cleaned, startIdx) ==
  IF startIdx = -1 THEN [ok |-> FALSE, text |-> <<>>, how |-> "no-brace"]
  ELSE AfterScan(cleaned, startIdx, Scan(cleaned, startIdx, ScanInit))

\* lines 346-427: the recovery of the text to parse
RecoverText(cleaned) == ScanFromBrace(cleaned, IndexOf(cleaned, "{"))

\* lines 429-438: the second parse
SecondParse(rec, second) ==
  IF second.ok THEN [ok |-> TRUE, v |-> second.v, how |-> rec.how]
  ELSE [ok |-> FALSE, v |-> JNull, how |-> "unparsable"]

\* lines 342-438: the catch of the strict parse
Recovered(rec) ==
  IF ~rec.ok THEN [ok |-> FALSE, v |-> JNull, how |-> rec.how]
  ELSE SecondParse(rec, JsonParse(rec.text))

\* lines 339-439 for the result strict of the strict parse
StrictOrRecovered(cleaned, strict) ==
  IF strict.ok THEN [ok |-> TRUE, v |-> strict.v, how |-> "strict"]
  ELSE Recovered(RecoverText(cleaned))

\* lines 339-439: strict parse, then the recovery parse
ParseWithRecovery(cleaned) == StrictOrRecovered(cleaned, JsonParse(cleaned))

\* OrEmpty that replaces everything that is not an array
OrEmptyArraysOnly(parsed, key) ==
  IF Get(parsed, key).t = "array" THEN parsed ELSE Put(parsed, key, JArr(<<>>))

\* lines 445-449: x = x || []
OrEmpty(parsed, key) ==
  IF Truthy(Get(parsed, key)) THEN parsed ELSE Put(parsed, key, JArr(<<>>))

DefaultSequences(parsed) ==
  OrEmpty(OrEmpty(OrEmpty(OrEmpty(parsed, <<"strengths">>), <<"improvements">>),
                  <<"best_practices">>), <<"resources">>)

\* line 452: the condition under which 'Invalid response structure' is thrown
InvalidStructure(parsed) ==
  \/ ~IsNumber(Get(parsed, <<"overall_score">>))
  \/ ~Truthy(Get(parsed, <<"scores">>))
  \/ ~Truthy(Get(parsed, <<"summary">>))

\* lines 441-456 for the parse result p and the value parsed after the
\* defaults were filled in
Validated(p, parsed) ==
  IF ~p.ok THEN [threw |-> TRUE, v |-> JNull, how |-> p.how]
  ELSE IF ~TypeofObject(p.v) \/ p.v = JNull
       THEN [threw |-> TRUE, v |-> JNull, how |-> "not-an-object"]
  ELSE IF InvalidStructure(parsed)
       THEN [threw |-> TRUE, v |-> JNull, how |-> "invalid-structure"]
  ELSE [threw |-> FALSE, v |-> parsed, how |-> p.how]

\* lines 441-456
Validate(p) == Validated(p, DefaultSequences(p.v))

\* lines 324-456: the body of the try block; threw where it throws
TryBody(response) ==
  IF response = NonString THEN [threw |-> TRUE, v |-> JNull, how |-> "not-a-string"]
  ELSE Validate(ParseWithRecovery(ExtractBraces(StripFence(Trim(response)))))

\* a catch that covers the parsing only: the structure check is made after
\* the try block
CatchLateCheck(r) ==
  IF r.threw /\ r.how = "invalid-structure"
  THEN [escaped |-> TRUE, record |-> JUndefined, how |-> r.how]
  ELSE IF r.threw THEN [escaped |-> FALSE, record |-> FallbackRecord, how |-> r.how]
  ELSE [escaped |-> FALSE, record |-> r.v, how |-> r.how]

\* lines 457-474: the catch block; escaped where an exception leaves the
\* function
Catch(r) ==
  IF r.threw THEN [escaped |-> FALSE, record |-> FallbackRecord, how |-> r.how]
  ELSE [escaped |-> FALSE, record |-> r.v, how |-> r.how]

\* lines 322-475
parseAIResponse(response) == Catch(TryBody(response))

(***************************************************************************)
(* The texts the model may answer with.                                    *)
(***************************************************************************)
\* bounds of the enumeration
MaxRawLen == 3
MaxProseLen == 1

RECURSIVE NatTokens(_)
NatTokens(n) ==
  LET d == CHOOSE c \in Digits : DigitVal(c) = n % 10
  IN  IF n < 10 THEN <<d>> ELSE NatTokens(n \div 10) \o <<d>>

RECURSIVE EscapeTokens(_)
EscapeTokens(s) ==
  IF s = <<>> THEN <<>>
  ELSE (IF s[1] \in {"\"", "\\"} THEN <<"\\", s[1]>> ELSE <<s[1]>>) \o EscapeTokens(Tail(s))

\* JSON.stringify(v): the compact JSON text of a value
RECURSIVE Stringify(_)
RECURSIVE StringifyMembers(_, _)
Stringify(v) ==
  CASE v.t = "number" -> (IF v.n < 0 THEN <<"-">> \o NatTokens(0 - v.n) ELSE NatTokens(v.n)) \o v.s
    [] v.t = "string" -> <<"\"">> \o EscapeTokens(v.s) \o <<"\"">>
    [] v.t = "object" -> <<"{">> \o StringifyMembers(v.m, TRUE) \o <<"}">>
    [] v.t = "array" -> <<"[">> \o StringifyMembers(v.m, FALSE) \o <<"]">>
    [] OTHER -> <<v.t>>

StringifyMembers(m, keyed) ==
  IF m = <<>> THEN <<>>
  ELSE (IF keyed THEN <<"\"">> \o EscapeTokens(m[1].k) \o <<"\"", ":">> ELSE <<>>)
       \o Stringify(m[1].v)
       \o (IF Len(m) > 1 THEN <<",">> ELSE <<>>)
       \o StringifyMembers(Tail(m), keyed)

\* a property the model left out
Absent == JUndefined

\* the scores of the example of the specification
FullScores ==
  JObj(<<Member(<<"readability">>, JNum(8)), Member(<<"efficiency">>, JNum(7)),
         Member(<<"maintainability">>, JNum(8)), Member(<<"security">>, JNum(6))>>)

OverallOpts == {Absent, JNum(0), JNum(80), JStr(<<"high">>)}
ScoresOpts == {Absent, FullScores, JNum(1)}
SummaryOpts == {Absent, JStr(<<>>), JStr(<<"Good">>), JNum(1)}

SequenceKeys == {<<"strengths">>, <<"improvements">>, <<"best_practices">>, <<"resources">>}
SequenceOpts ==
  {JArr(<<>>), JArr(<<Item(JObj(<<Member(<<"title">>, JStr(<<"Clear">>))>>))>>), JNull,
   JStr(<<"none">>)}

\* one more property after the mandatory ones, or none
NoExtra == Member(<<>>, Absent)
Extras == {NoExtra} \cup {Member(k, v) : k \in SequenceKeys, v \in SequenceOpts}
TailExtras == {NoExtra, Member(<<"refactored_code">>, JStr(<<"code">>))}

Present(members) ==
  LET keep == {j \in 1..Len(members) : members[j].v # Absent}
      nth(i) == CHOOSE j \in keep : Cardinality({h \in keep : h < j}) = i - 1
  IN  [i \in 1..Cardinality(keep) |-> members[nth(i)]]

\* the object the model answers with; scoresLast puts scores after summary
MakeObject(ov, sc, sm, extra, scoresLast) ==
  JObj(Present(IF scoresLast
               THEN <<Member(<<"overall_score">>, ov), Member(<<"summary">>, sm),
                      Member(<<"scores">>, sc), extra>>
               ELSE <<Member(<<"overall_score">>, ov), Member(<<"scores">>, sc),
                      Member(<<"summary">>, sm), extra>>))

RawTokens == {"{", "}", "\"", "\\", ":", "1", "a", " ", "null"}
ProseTokens == {"Here", "{", "}", "\""}

RECURSIVE SeqsUpTo(_, _)
SeqsUpTo(S, n) ==
  IF n = 0 THEN {<<>>}
  ELSE LET shorter == SeqsUpTo(S, n - 1)
       IN  shorter \cup {Append(q, c) : q \in shorter, c \in S}

Prose == SeqsUpTo(ProseTokens, MaxProseLen)

FenceTags == {"plain", "json", "other"}

\* the text wrapped in a markdown fence, with or without a language tag
Fenced(tag, text) ==
  <<Backtick, Backtick, Backtick>>
  \o (CASE tag = "json" -> <<"json">> [] tag = "other" -> <<"typescript">> [] OTHER -> <<>>)
  \o <<"\n">> \o text \o <<"\n", Backtick, Backtick, Backtick>>

(***************************************************************************)
(* The normalizer under every answer of the model.                         *)
(***************************************************************************)
VARIABLES
  pc,        \* "input": the answer is being produced; "done": normalized
  kind,      \* how the answer was produced
  emitted,   \* the JSON value the model meant to answer with
  object,    \* the text of that value
  lead,      \* the commentary before the object
  trail,     \* the commentary after the object
  unfenced,  \* the answer without its markdown fence
  fence,     \* "none" or the tag of the fence around the answer
  response,  \* the raw text handed to parseAIResponse
  result,    \* what parseAIResponse returned
  apiKey,      \* process.env.NVIDIA_API_KEY
  timeoutMs,   \* EVALUATION_TIMEOUT_MS, read from the environment at load time
  environment, \* the other variables of process.env
  aiConfig,    \* AI_CONFIG, read from the environment at load time
  taskStatus,  \* the status column of the tasks table
  evaluations, \* the rows of the evaluations table
  payments,    \* the rows of the payments table
  reply,       \* the body of the last JSON response that was sent
  req,         \* the requests to POST /api/evaluate and /api/evaluate/stream
  taskData,    \* the TaskData handed to constructEvaluationPrompt
  prompts,     \* the strings constructEvaluationPrompt returned for it
  requestCounts, \* the Map of the rate limiter: client -> count and resetTime
  now,         \* Date.now(), in milliseconds
  answer       \* what the rate limiter did with the last request

normVars == <<pc, kind, emitted, object, lead, trail, unfenced, fence, response, result>>
routeVars ==
  <<apiKey, timeoutMs, environment, aiConfig, taskStatus, evaluations, payments, reply, req>>
promptVars == <<taskData, prompts>>
limiterVars == <<requestCounts, now, answer>>
vars == <<normVars, routeVars, promptVars, limiterVars>>

NoResult == [escaped |-> FALSE, record |-> JUndefined, how |-> "none"]

\* no answer yet
NormInit ==
  /\ pc = "input"
  /\ kind = "empty"
  /\ emitted = Absent
  /\ object = <<>>
  /\ lead = <<>>
  /\ trail = <<>>
  /\ unfenced = <<>>
  /\ fence = "none"
  /\ response = <<>>
  /\ result = NoResult

\* the model answers with arbitrary text, one token at a time
TypeToken(c) ==
  /\ pc = "input" /\ kind \in {"empty", "raw"} /\ fence = "none"
  /\ Len(response) < MaxRawLen
  /\ kind' = "raw"
  /\ response' = Append(response, c)
  /\ unfenced' = response'
  /\ UNCHANGED <<pc, emitted, object, lead, trail, fence, result>>
  /\ UNCHANGED <<routeVars, promptVars, limiterVars>>

\* the model answers with one JSON object and nothing else
EmitObject(ov, sc, sm, extra) ==
  /\ pc = "input" /\ kind = "empty"
  /\ kind' = "object"
  /\ emitted' = MakeObject(ov, sc, sm, extra, FALSE)
  /\ object' = Stringify(emitted')
  /\ response' = object'
  /\ unfenced' = response'
  /\ UNCHANGED <<pc, lead, trail, fence, result>>
  /\ UNCHANGED <<routeVars, promptVars, limiterVars>>

\* the model surrounds the object with commentary
EmitWithProse(ov, sc, sm, l, t) ==
  /\ pc = "input" /\ kind = "empty"
  /\ l # <<>> \/ t # <<>>
  /\ kind' = "prose"
  /\ emitted' = MakeObject(ov, sc, sm, NoExtra, FALSE)
  /\ object' = Stringify(emitted')
  /\ lead' = l
  /\ trail' = t
  /\ response' = l \o object' \o t
  /\ unfenced' = response'
  /\ UNCHANGED <<pc, fence, result>>
  /\ UNCHANGED <<routeVars, promptVars, limiterVars>>

\* the answer is cut after k tokens by the token limit
EmitTruncated(ov, sc, sm, extra, scoresLast, k) ==
  /\ pc = "input" /\ kind = "empty"
  /\ kind' = "truncated"
  /\ emitted' = MakeObject(ov, sc, sm, extra, scoresLast)
  /\ object' = Stringify(emitted')
  /\ response' = SubSeq(object', 1, k)
  /\ unfenced' = response'
  /\ UNCHANGED <<pc, lead, trail, fence, result>>
  /\ UNCHANGED <<routeVars, promptVars, limiterVars>>

\* the answer is not a string at all
EmitNonString ==
  /\ pc = "input" /\ kind = "empty"
  /\ kind' = "non-string"
  /\ response' = NonString
  /\ unfenced' = response'
  /\ UNCHANGED <<pc, emitted, object, lead, trail, fence, result>>
  /\ UNCHANGED <<routeVars, promptVars, limiterVars>>

\* the model wraps its answer in a markdown fence
WrapInFence(tag) ==
  /\ pc = "input" /\ kind \notin {"empty", "non-string"} /\ fence = "none"
  /\ fence' = tag
  /\ response' = Fenced(tag, unfenced)
  /\ UNCHANGED <<pc, kind, emitted, object, lead, trail, unfenced, result>>
  /\ UNCHANGED <<routeVars, promptVars, limiterVars>>

\* parseAIResponse(response)
Normalize ==
  /\ pc = "input"
  /\ pc' = "done"
  /\ result' = parseAIResponse(response)
  /\ UNCHANGED <<kind, emitted, object, lead, trail, unfenced, fence, response>>
  /\ UNCHANGED <<routeVars, promptVars, limiterVars>>

(***************************************************************************)
(* POST /api/evaluate (src/server/routes/evaluate.ts:34-129), POST         *)
(* /api/evaluate/stream (132-345), the deadline race withEvaluationTimeout *)
(* (14-31) and evaluateCodeComplete (src/lib/ai/prompts.ts:253-320).  A    *)
(* step is what a handler does between two awaits; promise reactions run   *)
(* before the next timer or I/O callback, so the settling of the race and  *)
(* the continuation of the handler up to its next await are one step.      *)
(***************************************************************************)
\* bound: the number of requests
MaxReqs == 2

Reqs == 1..MaxReqs
Users == {"alice", "bob"}
Routes == {"complete", "stream"}

\* the tasks table: the task of alice; "unknown" is an id without a row
TaskOwner == [t \in {"task"} |-> "alice"]
TaskIds == DOMAIN TaskOwner \cup {"unknown"}

\* values of NVIDIA_API_KEY, character by character; unset is the empty text
Unset == <<>>
Placeholder ==
  <<"p", "l", "a", "c", "e", "h", "o", "l", "d", "e", "r", "-", "k", "e", "y", "-",
    "m", "i", "s", "s", "i", "n", "g">>
ValidKey == <<"n", "v", "a", "p", "i", "-", "0", "1", "2", "3", "4", "5", "6", "7", "8", "9">>
RotatedKey == <<"n", "v", "a", "p", "i", "-", "9", "8", "7", "6", "5", "4", "3", "2", "1", "0">>
ApiKeys == {Unset, Placeholder, ValidKey}

\* values of EVALUATION_TIMEOUT_MS in the environment, "unset" gives the default
DefaultTimeoutMs == 60000
TimeoutEnv == {"unset", "1500"}
EnvNumber(v) == IF v = "1500" THEN 1500 ELSE DefaultTimeoutMs

\* the other variables of the environment an evaluation depends on
EnvNames ==
  {"NVIDIA_BASE_URL", "NVIDIA_MODEL", "AI_TEMPERATURE", "AI_TOP_P", "AI_MAX_TOKENS",
   "EVALUATION_TIMEOUT_MS"}
EnvValues(name) == IF name = "EVALUATION_TIMEOUT_MS" THEN TimeoutEnv ELSE {"unset", "override"}
NoOverrides == [name \in EnvNames |-> "unset"]

\* process.env[name] || default: the value in effect, "default" when unset
OrDefault(e, name) == IF e[name] = "unset" THEN "default" ELSE e[name]

\* nvidia-client.ts:48-54: AI_CONFIG, built from the environment e
AiConfig(e) ==
  [model |-> OrDefault(e, "NVIDIA_MODEL"), temperature |-> OrDefault(e, "AI_TEMPERATURE"),
   top_p |-> OrDefault(e, "AI_TOP_P"), max_tokens |-> OrDefault(e, "AI_MAX_TOKENS")]

\* the configuration of one chat-completion call made under deadline ms:
\* nvidia-client.ts:27-38 for the client, prompts.ts:278-288 for the options
CallConfig(key, e, config, ms) ==
  [key |-> key, baseUrl |-> OrDefault(e, "NVIDIA_BASE_URL"), model |-> config.model,
   temperature |-> config.temperature, top_p |-> config.top_p,
   max_tokens |-> config.max_tokens, timeout |-> ms]
NoCall == CallConfig(Unset, NoOverrides, AiConfig(NoOverrides), 0)

\* Math.round(ms / 1000) for ms >= 0
RoundSeconds(ms) == (ms + 500) \div 1000

\* an answer with every field of the record
GoodAnswer ==
  JObj(<<Member(<<"overall_score">>, JNum(80)), Member(<<"scores">>, FullScores),
         Member(<<"summary">>, JStr(<<"Good">>)),
         Member(<<"strengths">>,
                JArr(<<Item(JStr(<<"s1">>)), Item(JStr(<<"s2">>)), Item(JStr(<<"s3">>)),
                       Item(JStr(<<"s4">>))>>)),
         Member(<<"improvements">>, JArr(<<Item(JStr(<<"i1">>))>>)),
         Member(<<"refactored_code">>, JStr(<<"code">>))>>)

\* what the model answers when the call succeeds
RawAnswers ==
  { Stringify(GoodAnswer),
    Stringify(MakeObject(JNum(80), FullScores, JStr(<<"Good">>),
                         Member(<<"strengths">>, JNum(5)), FALSE)),
    <<"I", " ", "cannot", " ", "review", " ", "this">>,
    <<>> }

\* how the upstream call fails: the status (0: the error has none) and whether
\* the error has a message
UpstreamErrors == [status : {0, 401, 403, 429, 500}, message : BOOLEAN]

\* the message of the upstream error, as one token
UpstreamMessage == "<upstream message>"

\* whether the text has the tokens of part in a row
Includes(text, part) ==
  \E i \in 0..(Len(text) - Len(part)) : SubSeq(text, i + 1, i + Len(part)) = part

\* key.substring(0, 10)...key.substring(key.length - 4) (key.length chars)
KeyExcerpt(key) ==
  Substring(key, 0, 10) \o <<".", ".", ".">> \o Substring(key, Len(key) - 4, Len(key))
  \o <<" (", ToString(Len(key)), " chars)">>

\* prompts.ts:308-309: the message of the 401 error
AuthenticationMessage(key) ==
  <<"NVIDIA API authentication failed (", "401", "). Current key: ">>
  \o (IF key # <<>> THEN KeyExcerpt(key) ELSE <<"NOT SET">>)
  \o <<". Check your .env.local file">>

NoValue == [kind |-> "none", status |-> 0, seconds |-> 0, record |-> JUndefined, text |-> <<>>]
Record(rec) == [NoValue EXCEPT !.kind = "record", !.record = rec]
Failure(k, st, text) == [NoValue EXCEPT !.kind = k, !.status = st, !.text = text]
\* lines 20-26: the error of the deadline, with the deadline in seconds
TimeoutFailure(ms) ==
  [NoValue EXCEPT !.kind = "timeout", !.seconds = RoundSeconds(ms),
                  !.text = <<"Evaluation timed out after ", ToString(RoundSeconds(ms)),
                             " seconds">>]

\* prompts.ts:255-257: the error of a missing credential
ConfigurationFailure == Failure("configuration", 0, <<"NVIDIA API key is not configured">>)

\* prompts.ts:255: no credential is configured
KeyMissing(key) == key = Unset \/ key = Placeholder

\* prompts.ts:306-318: the error thrown for a failed upstream call; key is the
\* credential in the environment when the call fails, model is AI_CONFIG.model
MapUpstreamError(err, key, model) ==
  IF err.status = 401 THEN Failure("authentication", 401, AuthenticationMessage(key))
  ELSE IF err.status = 403
       THEN Failure("authentication", 403,
                    <<"NVIDIA API access forbidden (", "403", "). Model: ", model>>)
  ELSE IF err.status = 429
       THEN Failure("rate-limit", 429, <<"NVIDIA API rate limit exceeded (", "429", ")">>)
  ELSE IF err.message THEN Failure("upstream", 0, <<"NVIDIA API error: ", UpstreamMessage>>)
  ELSE Failure("upstream", err.status,
               <<"NVIDIA API request failed with status ",
                 IF err.status # 0 THEN ToString(err.status) ELSE "unknown">>)

\* evaluate.ts:224-240: the error of the streaming route for the error aiError
\* of the evaluation (an Error without a status of its own)
StreamFailure(aiError) ==
  IF Includes(aiError.text, <<"401">>)
  THEN [aiError EXCEPT !.text = <<"NVIDIA API authentication failed">>]
  ELSE IF aiError.text # <<>>
       THEN [aiError EXCEPT !.text = <<"AI evaluation failed: ">> \o aiError.text]
  ELSE [aiError EXCEPT !.text = <<"AI evaluation failed">>]

\* an event of the stream of a request
Event(type, name, id) == [type |-> type, name |-> name, id |-> id]
Initializing == Event("status", "initializing", 0)
Analyzing == Event("status", "analyzing", 0)
Sending == Event("progress", "sending", 0)
Processing == Event("progress", "processing", 0)
Parsing == Event("status", "parsing", 0)
Saving == Event("status", "saving", 0)
Complete(id) == Event("complete", "complete", id)
ErrorEvent == Event("error", "error", 0)

\* no upstream error
NoError == [status |-> 0, message |-> FALSE]

\* a request before it arrives
Idle ==
  [pc |-> "idle", route |-> "complete", user |-> "alice", task |-> "task",
   timer |-> "none", call |-> "none", calls |-> 0, used |-> NoCall, raw |-> <<>>,
   upstream |-> NoError,
   callValue |-> NoValue, race |-> "none", raceValue |-> NoValue, failure |-> NoValue,
   status |-> 0, events |-> <<>>, ended |-> FALSE]

Resume(r, f) == req' = [req EXCEPT ![r] = f]

\* Failed that sends the chat-completion request a second time after the
\* first attempt failed
FailedRetrying(f, value, code) ==
  IF f.calls = 1
  THEN [f EXCEPT !.timer = "armed", !.call = "pending", !.calls = 2, !.race = "pending",
                 !.pc = "racing"]
  ELSE IF f.route = "stream" /\ f.events # <<>>
       THEN [f EXCEPT !.pc = "failed", !.failure = value, !.status = 200,
                      !.events = Append(@, ErrorEvent), !.ended = TRUE]
  ELSE [f EXCEPT !.pc = "failed", !.failure = value, !.status = code]

\* evaluate.ts:125-127 and 313-343: the request f ends with the error value.
\* Once the event stream is open the error is its last event; before that
\* the error goes to next(error) and the error handler answers with code.
Failed(f, value, code) ==
  IF f.route = "stream" /\ f.events # <<>>
  THEN [f EXCEPT !.pc = "failed", !.failure = value, !.status = 200,
                 !.events = Append(@, ErrorEvent), !.ended = TRUE]
  ELSE [f EXCEPT !.pc = "failed", !.failure = value, !.status = code]

\* evaluate.ts:224-240: the streaming route rewords the error of the evaluation
Reworded(f, value) == IF f.route = "stream" THEN StreamFailure(value) ELSE value

\* a body without the fields of the evaluation
NoReply ==
  [endpoint |-> "none", user |-> "none", asked |-> 0, status |-> 0, id |-> 0,
   is_unlocked |-> FALSE,
   overall_score |-> JUndefined, summary |-> JUndefined, strengths |-> JUndefined,
   improvements |-> JUndefined, refactored_code |-> JUndefined,
   detailed_analysis |-> JUndefined, list |-> {}]

\* the error handler's answer
ErrorReply(endpoint, u, code) ==
  [NoReply EXCEPT !.endpoint = endpoint, !.user = u, !.status = code]

\* (strengths || []).slice(0, 3) throws a TypeError for a truthy value that is
\* neither an array nor a string
SliceThrows(v) == Truthy(v) /\ v.t \notin {"array", "string"}

\* (strengths || []).slice(0, 3)
SlicePreview(v) ==
  IF ~Truthy(v) THEN JArr(<<>>)
  ELSE IF v.t = "array" THEN JArr(Slice(v.m, 0, 3))
  ELSE JStr(Slice(v.s, 0, 3))

\* evaluate.ts:108-124 and evaluations.ts:96-109: the preview of a row
PreviewReply(endpoint, u, row) ==
  [NoReply EXCEPT !.endpoint = endpoint, !.user = u, !.status = 200, !.id = row.id,
                  !.is_unlocked = row.is_unlocked, !.overall_score = row.overall_score,
                  !.summary = row.summary, !.strengths = SlicePreview(row.strengths)]

\* the route is entered: authenticateUser and the validators passed
Arrive(r, rt, u, t) ==
  /\ req[r].pc = "idle"
  /\ Resume(r, [req[r] EXCEPT !.pc = "fetching", !.route = rt, !.user = u, !.task = t])
  /\ UNCHANGED <<apiKey, timeoutMs, environment, aiConfig, taskStatus, evaluations,
                 payments, reply>>
  /\ UNCHANGED <<normVars, promptVars, limiterVars>>

\* lines 46-56 and 144-153: the task is fetched by id and user; 404 when there
\* is none
FetchTask(r) ==
  /\ req[r].pc = "fetching"
  /\ IF req[r].task \in DOMAIN TaskOwner /\ TaskOwner[req[r].task] = req[r].user
     THEN /\ Resume(r, [req[r] EXCEPT !.pc = "marking"])
          /\ reply' = reply
     ELSE /\ Resume(r, Failed(req[r], Failure("not-found", 0, <<"Task not found">>), 404))
          /\ reply' = ErrorReply("evaluate", req[r].user, 404)
  /\ UNCHANGED <<apiKey, timeoutMs, environment, aiConfig, taskStatus, evaluations,
                 payments>>
  /\ UNCHANGED <<normVars, promptVars, limiterVars>>

\* lines 58-62 and 155-159: the status of the task becomes 'processing'
MarkProcessing(r) ==
  /\ req[r].pc = "marking"
  /\ taskStatus' = [taskStatus EXCEPT ![req[r].task] = "processing"]
  /\ Resume(r, [req[r] EXCEPT !.pc = "starting"])
  /\ UNCHANGED <<apiKey, timeoutMs, environment, aiConfig, evaluations, payments, reply>>
  /\ UNCHANGED <<normVars, promptVars, limiterVars>>

\* the request f after the chat-completion request was sent under the deadline
InFlight(f) ==
  [f EXCEPT !.timer = "armed", !.call = "pending", !.calls = @ + 1,
            !.used = CallConfig(apiKey, environment, aiConfig, timeoutMs),
            !.race = "pending", !.pc = "racing"]

\* lines 65-67 and 14-31: withEvaluationTimeout sets the timer and calls
\* evaluateCodeComplete, which throws at once without a credential (the race is
\* then lost to that error before any timer can fire) and otherwise sends the
\* chat-completion request
StartComplete(f) ==
  IF KeyMissing(apiKey)
  THEN Failed([f EXCEPT !.timer = "armed", !.call = "rejected",
                        !.callValue = ConfigurationFailure,
                        !.race = "rejected", !.raceValue = ConfigurationFailure],
              ConfigurationFailure, 500)
  ELSE InFlight(f)

\* lines 161-213: the event stream is opened; without a credential the route
\* throws before withEvaluationTimeout is reached
StartStream(f) ==
  IF KeyMissing(apiKey)
  THEN Failed([f EXCEPT !.events = <<Initializing, Analyzing>>],
              StreamFailure(ConfigurationFailure), 200)
  ELSE InFlight([f EXCEPT !.events = <<Initializing, Analyzing, Sending>>])

\* the step after the status of the task was updated
StartEvaluation(r) ==
  /\ req[r].pc = "starting"
  /\ Resume(r, IF req[r].route = "stream" THEN StartStream(req[r]) ELSE StartComplete(req[r]))
  /\ reply' = IF req[r].route = "complete" /\ KeyMissing(apiKey)
              THEN ErrorReply("evaluate", req[r].user, 500) ELSE reply
  /\ UNCHANGED <<apiKey, timeoutMs, environment, aiConfig, taskStatus, evaluations,
                 payments>>
  /\ UNCHANGED <<normVars, promptVars, limiterVars>>

\* Evaluated that announces the parsing before the end of the analysis
EvaluatedUnordered(f) ==
  IF f.route = "stream"
  THEN [f EXCEPT !.pc = "inserting", !.events = @ \o <<Parsing, Processing, Saving>>]
  ELSE [f EXCEPT !.pc = "inserting"]

\* lines 69 and 215-260: the handler goes on with the record of the model call
Evaluated(f) ==
  IF f.route = "stream"
  THEN [f EXCEPT !.pc = "inserting", !.events = @ \o <<Processing, Parsing, Saving>>]
  ELSE [f EXCEPT !.pc = "inserting"]

\* CallSettled that lets an answer of the model reopen a request the deadline
\* has failed
CallSettledLate(f, outcome, value) ==
  IF outcome = "resolved"
  THEN Evaluated([f EXCEPT !.call = outcome, !.callValue = value,
                           !.race = "fulfilled", !.raceValue = value])
  ELSE IF f.race # "pending" THEN [f EXCEPT !.call = outcome, !.callValue = value]
  ELSE Failed([f EXCEPT !.call = outcome, !.callValue = value,
                        !.race = "rejected", !.raceValue = value],
              Reworded(f, value), 500)

\* CallSettled that answers a failed model call with the Fallback Record
CallSettledFallback(f, outcome, value) ==
  IF f.race # "pending" THEN [f EXCEPT !.call = outcome, !.callValue = value]
  ELSE IF outcome = "resolved"
       THEN Evaluated([f EXCEPT !.call = outcome, !.callValue = value,
                                !.race = "fulfilled", !.raceValue = value])
  ELSE Evaluated([f EXCEPT !.call = outcome, !.callValue = value,
                           !.race = "fulfilled", !.raceValue = Record(FallbackRecord)])

\* the model call of request f settled with value; the race is settled by it
\* if it is still open, otherwise the value is dropped
CallSettled(f, outcome, value) ==
  IF f.race # "pending" THEN [f EXCEPT !.call = outcome, !.callValue = value]
  ELSE IF outcome = "resolved"
       THEN Evaluated([f EXCEPT !.call = outcome, !.callValue = value,
                                !.race = "fulfilled", !.raceValue = value])
  ELSE Failed([f EXCEPT !.call = outcome, !.callValue = value,
                        !.race = "rejected", !.raceValue = value],
              Reworded(f, value), 500)

\* prompts.ts:278-293: the upstream answers with raw; evaluateCodeComplete
\* returns parseAIResponse(raw)
ModelResolves(r, raw) ==
  /\ req[r].call = "pending"
  /\ Resume(r, CallSettled([req[r] EXCEPT !.raw = raw], "resolved",
                           Record(parseAIResponse(raw).record)))
  /\ UNCHANGED <<apiKey, timeoutMs, environment, aiConfig, taskStatus, evaluations,
                 payments, reply>>
  /\ UNCHANGED <<normVars, promptVars, limiterVars>>

\* prompts.ts:294-319: the upstream call fails; the mapped error is thrown
ModelRejects(r, err) ==
  /\ req[r].call = "pending"
  /\ Resume(r, CallSettled([req[r] EXCEPT !.upstream = err], "rejected",
                           MapUpstreamError(err, apiKey, aiConfig.model)))
  /\ reply' = IF req[r].race = "pending" /\ req[r].route = "complete"
              THEN ErrorReply("evaluate", req[r].user, 500) ELSE reply
  /\ UNCHANGED <<apiKey, timeoutMs, environment, aiConfig, taskStatus, evaluations,
                 payments>>
  /\ UNCHANGED <<normVars, promptVars, limiterVars>>

\* TimerFires that fails the request whether or not the race is settled
TimerFiresUnguarded(r) ==
  /\ req[r].timer = "armed"
  /\ Resume(r, Failed([req[r] EXCEPT !.timer = "fired", !.race = "rejected",
                                     !.raceValue = TimeoutFailure(timeoutMs)],
                      Reworded(req[r], TimeoutFailure(timeoutMs)), 500))
  /\ reply' = IF req[r].route = "complete"
              THEN ErrorReply("evaluate", req[r].user, 500) ELSE reply
  /\ UNCHANGED <<apiKey, timeoutMs, environment, aiConfig, taskStatus, evaluations,
                 payments>>
  /\ UNCHANGED <<normVars, promptVars, limiterVars>>

\* TimerFires whose callback clears the timer and rejects nothing
TimerFiresSilently(r) ==
  /\ req[r].timer = "armed"
  /\ Resume(r, [req[r] EXCEPT !.timer = "fired"])
  /\ UNCHANGED <<apiKey, timeoutMs, environment, aiConfig, taskStatus, evaluations,
                 payments, reply>>
  /\ UNCHANGED <<normVars, promptVars, limiterVars>>

\* lines 18-27: the deadline passes; the timeout promise is rejected, which
\* settles the race only if it is still open
TimerFires(r) ==
  /\ req[r].timer = "armed"
  /\ IF req[r].race = "pending"
     THEN Resume(r, Failed([req[r] EXCEPT !.timer = "fired", !.race = "rejected",
                                          !.raceValue = TimeoutFailure(timeoutMs)],
                           Reworded(req[r], TimeoutFailure(timeoutMs)), 500))
     ELSE Resume(r, [req[r] EXCEPT !.timer = "fired"])
  /\ reply' = IF req[r].race = "pending" /\ req[r].route = "complete"
              THEN ErrorReply("evaluate", req[r].user, 500) ELSE reply
  /\ UNCHANGED <<apiKey, timeoutMs, environment, aiConfig, taskStatus, evaluations,
                 payments>>
  /\ UNCHANGED <<normVars, promptVars, limiterVars>>

\* the row of lines 72-90 and 265-283 for the record rec
RowOf(id, task, u, rec) ==
  [id |-> id, task_id |-> task, user_id |-> u,
   overall_score |-> Get(rec, <<"overall_score">>),
   readability_score |-> Get(Get(rec, <<"scores">>), <<"readability">>),
   efficiency_score |-> Get(Get(rec, <<"scores">>), <<"efficiency">>),
   maintainability_score |-> Get(Get(rec, <<"scores">>), <<"maintainability">>),
   security_score |-> Get(Get(rec, <<"scores">>), <<"security">>),
   summary |-> Get(rec, <<"summary">>), strengths |-> Get(rec, <<"strengths">>),
   improvements |-> Get(rec, <<"improvements">>),
   refactored_code |-> Get(rec, <<"refactored_code">>), detailed_analysis |-> rec,
   is_unlocked |-> FALSE, unlocked_at |-> "never", evaluation_status |-> "completed"]

\* the row a request inserts; its id is the number of the request
EvaluationRow(r) == RowOf(r, req[r].task, req[r].user, req[r].raceValue.record)

\* InsertEvaluation with a handler that puts the task back to 'pending' when
\* the insert fails
InsertEvaluationResets(r, ok) ==
  /\ req[r].pc = "inserting"
  /\ IF ok
     THEN /\ evaluations' = evaluations \cup {EvaluationRow(r)}
          /\ Resume(r, [req[r] EXCEPT !.pc = "completing"])
          /\ reply' = reply
          /\ taskStatus' = taskStatus
     ELSE /\ evaluations' = evaluations
          /\ Resume(r, Failed(req[r], Failure("save-failed", 0, <<"Failed to save evaluation">>),
                              500))
          /\ reply' = IF req[r].route = "complete"
                      THEN ErrorReply("evaluate", req[r].user, 500) ELSE reply
          /\ taskStatus' = [taskStatus EXCEPT ![req[r].task] = "pending"]
  /\ UNCHANGED <<apiKey, timeoutMs, environment, aiConfig, payments>>
  /\ UNCHANGED <<normVars, promptVars, limiterVars>>

\* lines 69-99 and 262-289: the evaluation is inserted, or the insert fails
InsertEvaluation(r, ok) ==
  /\ req[r].pc = "inserting"
  /\ IF ok
     THEN /\ evaluations' = evaluations \cup {EvaluationRow(r)}
          /\ Resume(r, [req[r] EXCEPT !.pc = "completing"])
          /\ reply' = reply
     ELSE /\ evaluations' = evaluations
          /\ Resume(r, Failed(req[r], Failure("save-failed", 0, <<"Failed to save evaluation">>),
                              500))
          /\ reply' = IF req[r].route = "complete"
                      THEN ErrorReply("evaluate", req[r].user, 500) ELSE reply
  /\ UNCHANGED <<apiKey, timeoutMs, environment, aiConfig, taskStatus, payments>>
  /\ UNCHANGED <<normVars, promptVars, limiterVars>>

\* lines 107-124: the preview is sent, unless building it throws
SendPreview(f, row) ==
  IF SliceThrows(row.strengths)
  THEN Failed(f, Failure("type-error", 0, <<"slice is not a function">>), 500)
  ELSE [f EXCEPT !.pc = "completed", !.status = 200]

\* lines 297-312: the complete event is sent and the stream is ended
SendComplete(f, row) ==
  [f EXCEPT !.pc = "completed", !.status = 200, !.events = Append(@, Complete(row.id)),
            !.ended = TRUE]

\* lines 101-124 and 291-312: the status of the task becomes 'completed' and
\* the answer is sent
MarkCompleted(r) ==
  /\ req[r].pc = "completing"
  /\ taskStatus' = [taskStatus EXCEPT ![req[r].task] = "completed"]
  /\ Resume(r, IF req[r].route = "stream" THEN SendComplete(req[r], EvaluationRow(r))
               ELSE SendPreview(req[r], EvaluationRow(r)))
  /\ reply' = IF req[r].route = "stream" THEN reply
              ELSE IF SliceThrows(EvaluationRow(r).strengths)
                   THEN ErrorReply("evaluate", req[r].user, 500)
              ELSE PreviewReply("evaluate", req[r].user, EvaluationRow(r))
  /\ UNCHANGED <<apiKey, timeoutMs, environment, aiConfig, evaluations, payments>>
  /\ UNCHANGED <<normVars, promptVars, limiterVars>>

(***************************************************************************)
(* The evaluations a user reads (src/server/routes/evaluations.ts:9-162)   *)
(* and the simulated payment that unlocks one (src/unnamed/part_000).      *)
(***************************************************************************)
\* bound: the number of payment orders
MaxPayments == 1

\* the ids a caller may name: those of the rows the requests insert
EvaluationIds == Reqs

\* .eq('id', id).eq('user_id', u): the rows with that id and owner
RowsOf(id, u) == {row \in evaluations : row.id = id /\ row.user_id = u}

\* evaluations.ts:141-158: the full evaluation
FullReply(u, row) ==
  [NoReply EXCEPT !.endpoint = "full", !.user = u, !.status = 200, !.id = row.id,
                  !.is_unlocked = row.is_unlocked, !.overall_score = row.overall_score,
                  !.summary = row.summary, !.strengths = row.strengths,
                  !.improvements = row.improvements,
                  !.refactored_code = row.refactored_code,
                  !.detailed_analysis = row.detailed_analysis]

\* FullReply for a caller who is not asked whether the evaluation is unlocked
FullAnswerUnlocked(u, rows) ==
  IF rows = {} THEN ErrorReply("full", u, 404)
  ELSE FullReply(u, CHOOSE row \in rows : TRUE)

\* evaluations.ts:126-158: 404 without a row of the caller, 403 while locked
FullAnswer(u, rows) ==
  IF rows = {} THEN ErrorReply("full", u, 404)
  ELSE IF ~(CHOOSE row \in rows : TRUE).is_unlocked THEN ErrorReply("full", u, 403)
  ELSE FullReply(u, CHOOSE row \in rows : TRUE)

\* evaluations.ts:85-109: 404 without a row of the caller
PreviewAnswer(u, rows) ==
  IF rows = {} THEN ErrorReply("preview", u, 404)
  ELSE IF SliceThrows((CHOOSE row \in rows : TRUE).strengths) THEN ErrorReply("preview", u, 500)
  ELSE PreviewReply("preview", u, CHOOSE row \in rows : TRUE)

\* GET /api/evaluations (evaluations.ts:10-72): ids, scores and lock states
GetEvaluations(u) ==
  /\ reply' = [ErrorReply("list", u, 200) EXCEPT
                 !.list = {[id |-> row.id, score |-> row.overall_score,
                            status |-> IF row.is_unlocked THEN "unlocked" ELSE "locked"] :
                           row \in {x \in evaluations : x.user_id = u}}]
  /\ UNCHANGED <<apiKey, timeoutMs, environment, aiConfig, taskStatus, evaluations,
                 payments, req>>
  /\ UNCHANGED <<normVars, promptVars, limiterVars>>

\* GET /api/evaluations/:id/preview (evaluations.ts:75-113)
GetPreview(u, id) ==
  /\ reply' = [PreviewAnswer(u, RowsOf(id, u)) EXCEPT !.asked = id]
  /\ UNCHANGED <<apiKey, timeoutMs, environment, aiConfig, taskStatus, evaluations,
                 payments, req>>
  /\ UNCHANGED <<normVars, promptVars, limiterVars>>

\* GET /api/evaluations/:id/full (evaluations.ts:116-162)
GetFull(u, id) ==
  /\ reply' = [FullAnswer(u, RowsOf(id, u)) EXCEPT !.asked = id]
  /\ UNCHANGED <<apiKey, timeoutMs, environment, aiConfig, taskStatus, evaluations,
                 payments, req>>
  /\ UNCHANGED <<normVars, promptVars, limiterVars>>

\* .update({is_unlocked: true, unlocked_at: now}).eq('id', id)
Unlocked(rows, id) ==
  {IF row.id = id THEN [row EXCEPT !.is_unlocked = TRUE, !.unlocked_at = "now"] ELSE row :
     row \in rows}

\* the answer of create-order to the order for the evaluation id
OrderReply(u, id, code) == [ErrorReply("create-order", u, code) EXCEPT !.asked = id]

\* create-order without the test of the owner: .eq('id', evaluation_id) only
CreateOrderOfAnyone(u, id, insertOk) ==
  /\ Len(payments) < MaxPayments
  /\ IF {row \in evaluations : row.id = id} = {}
     THEN payments' = payments /\ reply' = OrderReply(u, id, 404)
     ELSE /\ payments' = Append(payments, [user_id |-> u, evaluation_id |-> id,
                                           payment_status |-> "pending"])
          /\ reply' = [OrderReply(u, id, 200) EXCEPT !.id = id]
  /\ UNCHANGED <<apiKey, timeoutMs, environment, aiConfig, taskStatus, evaluations, req>>
  /\ UNCHANGED <<normVars, promptVars, limiterVars>>

\* POST /api/payment/create-order (part_000:11-82): an order for a locked
\* evaluation of the caller; the order id is the number of the payment;
\* insertOk is FALSE when the insert of the payment fails
CreateOrder(u, id, insertOk) ==
  /\ \/ Len(payments) < MaxPayments
     \/ RowsOf(id, u) = {} \/ (\E row \in RowsOf(id, u) : row.is_unlocked) \/ ~insertOk
  /\ IF RowsOf(id, u) = {}
     THEN payments' = payments /\ reply' = OrderReply(u, id, 404)
     ELSE IF (CHOOSE row \in RowsOf(id, u) : TRUE).is_unlocked
          THEN payments' = payments /\ reply' = OrderReply(u, id, 400)
     ELSE IF ~insertOk
          THEN payments' = payments /\ reply' = OrderReply(u, id, 500)
     ELSE /\ payments' = Append(payments, [user_id |-> u, evaluation_id |-> id,
                                           payment_status |-> "pending"])
          /\ reply' = [OrderReply(u, id, 200) EXCEPT !.id = id]
  /\ UNCHANGED <<apiKey, timeoutMs, environment, aiConfig, taskStatus, evaluations, req>>
  /\ UNCHANGED <<normVars, promptVars, limiterVars>>

\* POST /api/payment/verify (part_000:85-159): the order of the caller is
\* marked paid and its evaluation is unlocked; a failed unlock is only logged
VerifyPayment(u, order, unlockOk) ==
  /\ IF order \in DOMAIN payments /\ payments[order].user_id = u
     THEN /\ payments' = [payments EXCEPT ![order].payment_status = "success"]
          /\ evaluations' = IF unlockOk
                            THEN Unlocked(evaluations, payments[order].evaluation_id)
                            ELSE evaluations
          /\ reply' = [ErrorReply("verify", u, 200) EXCEPT
                         !.id = payments[order].evaluation_id]
     ELSE /\ payments' = payments
          /\ evaluations' = evaluations
          /\ reply' = ErrorReply("verify", u, 404)
  /\ UNCHANGED <<apiKey, timeoutMs, environment, aiConfig, taskStatus, req>>
  /\ UNCHANGED <<normVars, promptVars, limiterVars>>

\* POST /api/payment/webhook (part_000:162-213): no caller is authenticated.
\* id is the evaluation id of a payment.captured event and order its
\* transaction; id is 0 for any other event and for an event without an id
PaymentWebhook(id, order) ==
  /\ payments' = [p \in DOMAIN payments |->
                    IF id # 0 /\ p = order
                    THEN [payments[p] EXCEPT !.payment_status = "success"]
                    ELSE payments[p]]
  /\ evaluations' = IF id # 0 THEN Unlocked(evaluations, id) ELSE evaluations
  /\ reply' = ErrorReply("webhook", "none", 200)
  /\ UNCHANGED <<apiKey, timeoutMs, environment, aiConfig, taskStatus, req>>
  /\ UNCHANGED <<normVars, promptVars, limiterVars>>

(***************************************************************************)
(* The environment of the process.                                         *)
(***************************************************************************)
\* bounds: the number of variables that are changed after the modules were
\* loaded, and the length of a credential that is typed in
MaxEnvChanges == 1
MaxKeyLen == 11

KeyAlphabet == {"a", "b"}

\* the variables whose value is not the one the modules were loaded with
Changed == {name \in EnvNames : environment[name] # "unset"}

\* the operator changes a variable of the environment of the running process
SetEnv(name, v) ==
  /\ environment[name] # v
  /\ environment' = [environment EXCEPT ![name] = v]
  /\ Cardinality({n \in EnvNames : environment'[n] # "unset"})
       + (IF apiKey # ValidKey THEN 1 ELSE 0) <= MaxEnvChanges
  /\ UNCHANGED <<apiKey, timeoutMs, aiConfig, taskStatus, evaluations, payments, reply, req>>
  /\ UNCHANGED <<normVars, promptVars, limiterVars>>

\* the operator rotates or removes the credential of the running process
SetKey(key) ==
  /\ apiKey # key
  /\ apiKey' = key
  /\ Cardinality(Changed) + (IF key # ValidKey THEN 1 ELSE 0) <= MaxEnvChanges
  /\ UNCHANGED <<timeoutMs, environment, aiConfig, taskStatus, evaluations, payments,
                 reply, req>>
  /\ UNCHANGED <<normVars, promptVars, limiterVars>>

\* the credential is typed into the environment before the first request
TypeKeyChar(c) ==
  /\ \A r \in Reqs : req[r].pc = "idle"
  /\ Len(apiKey) < MaxKeyLen
  /\ apiKey' = Append(apiKey, c)
  /\ UNCHANGED <<timeoutMs, environment, aiConfig, taskStatus, evaluations, payments,
                 reply, req>>
  /\ UNCHANGED <<normVars, promptVars, limiterVars>>

\* the tables and the requests before any request
TablesInit ==
  /\ taskStatus = [t \in DOMAIN TaskOwner |-> "pending"]
  /\ evaluations = {}
  /\ payments = <<>>
  /\ reply = NoReply
  /\ req = [r \in Reqs |-> Idle]

\* evaluate.ts:12 and nvidia-client.ts:48-54: what the modules read from the
\* environment when they are loaded
Loaded ==
  /\ aiConfig = AiConfig(environment)
  /\ timeoutMs = EnvNumber(environment["EVALUATION_TIMEOUT_MS"])

\* the route before any request
RouteInit ==
  /\ apiKey \in ApiKeys
  /\ environment \in {[NoOverrides EXCEPT !["EVALUATION_TIMEOUT_MS"] = v] : v \in TimeoutEnv}
  /\ Loaded
  /\ TablesInit

\* the route at rest, while the normalizer is looked at on its own
RouteQuiet ==
  /\ apiKey = ValidKey
  /\ environment = NoOverrides
  /\ Loaded
  /\ TablesInit

(***************************************************************************)
(* constructEvaluationPrompt (src/lib/ai/prompts.ts:1-140).  A text is a   *)
(* sequence of tokens; the fixed parts of the template are one token each. *)
(***************************************************************************)
MaxCodeLen == 2
MaxBuilds == 2

\* the template before the first placeholder (lines 11-15) and after the
\* fence of the code (lines 27-139)
Preamble == "# Comprehensive Code Evaluation Task ... ## Task Information\n"
Requirements == "\n\n## Evaluation Requirements ... Respond ONLY with valid JSON."

\* ${field}: the text a template literal puts for a value
Interpolate(v) ==
  CASE v.t = "string" -> v.s
    [] OTHER -> <<v.t>>

\* ${field || label}
OrLabel(v, label) == IF Truthy(v) THEN Interpolate(v) ELSE <<label>>

\* ${field ?? label}: the label for undefined and null only
OrLabelNullish(v, label) == IF v \in {JUndefined, JNull} THEN <<label>> ELSE Interpolate(v)

\* lines 10-140 with ?? in the place of ||
PromptNullish(t) ==
  <<Preamble, "- **Title**: ">> \o Interpolate(t.title)
  \o <<"\n", "- **Description**: ">> \o Interpolate(t.description)
  \o <<"\n", "- **Programming Language**: ">> \o Interpolate(t.programming_language)
  \o <<"\n", "- **Category**: ">> \o OrLabelNullish(t.category, "General")
  \o <<"\n", "- **Difficulty Level**: ">> \o OrLabelNullish(t.difficulty_level, "Intermediate")
  \o <<"\n", "\n## Code to Evaluate\n\n", Backtick, Backtick, Backtick>>
  \o Interpolate(t.programming_language) \o <<"\n">> \o Interpolate(t.code_content)
  \o <<"\n", Backtick, Backtick, Backtick, Requirements>>

\* lines 10-140
constructEvaluationPrompt(t) ==
  <<Preamble, "- **Title**: ">> \o Interpolate(t.title)
  \o <<"\n", "- **Description**: ">> \o Interpolate(t.description)
  \o <<"\n", "- **Programming Language**: ">> \o Interpolate(t.programming_language)
  \o <<"\n", "- **Category**: ">> \o OrLabel(t.category, "General")
  \o <<"\n", "- **Difficulty Level**: ">> \o OrLabel(t.difficulty_level, "Intermediate")
  \o <<"\n", "\n## Code to Evaluate\n\n", Backtick, Backtick, Backtick>>
  \o Interpolate(t.programming_language) \o <<"\n">> \o Interpolate(t.code_content)
  \o <<"\n", Backtick, Backtick, Backtick, Requirements>>

\* the tasks a caller may hand in: the optional fields absent, null, empty or set
CodeTokens == {"x", "\n", Backtick}
OptionalTexts == {JUndefined, JNull, JStr(<<>>), JStr(<<"Sorting">>)}
Tasks ==
  [title : {JStr(<<>>), JStr(<<"Sort">>)},
   description : {JStr(<<>>), JStr(<<"An", "array">>)},
   code_content : {JStr(c) : c \in SeqsUpTo(CodeTokens, MaxCodeLen)},
   programming_language : {JStr(<<>>), JStr(<<"ts">>)},
   category : OptionalTexts,
   difficulty_level : OptionalTexts]

\* the task of the other specifications
PlainTask ==
  [title |-> JStr(<<"Sort">>), description |-> JStr(<<>>), code_content |-> JStr(<<"x">>),
   programming_language |-> JStr(<<"ts">>), category |-> JUndefined,
   difficulty_level |-> JUndefined]

PromptQuiet == taskData = PlainTask /\ prompts = <<>>

\* const prompt = constructEvaluationPrompt(taskData) (line 201, line 259)
BuildPrompt ==
  /\ Len(prompts) < MaxBuilds
  /\ prompts' = Append(prompts, constructEvaluationPrompt(taskData))
  /\ UNCHANGED <<taskData, normVars, routeVars, limiterVars>>

(***************************************************************************)
(* rateLimiter (src/unnamed/part_001:1-55).  The clock moves to the        *)
(* instants around a stored resetTime, where the limiter changes its mind. *)
(***************************************************************************)
RATE_LIMIT_WINDOW == 60000
RATE_LIMIT_MAX_REQUESTS == 60
MaxClock == 60002

Clients == {"10.0.0.1", "10.0.0.2"}

NoAnswer == [client |-> "none", status |-> 0, retryAfter |-> 0]

\* the Map is empty when the module is loaded (line 4)
LimiterInit ==
  /\ requestCounts = [k \in {} |-> [count |-> 0, resetTime |-> 0]]
  /\ now = 0
  /\ answer = NoAnswer

\* Math.ceil(ms / 1000) for ms >= 0
CeilSeconds(ms) == (ms + 999) \div 1000

\* lines 27-32: the entries that are left after the clean-up
LiveEntries == {k \in DOMAIN requestCounts : ~(requestCounts[k].resetTime < now)}

\* lines 36-43: first request or window expired
StartWindow(clientId, live) ==
  /\ requestCounts' = [k \in live \cup {clientId} |->
                         IF k = clientId
                         THEN [count |-> 1, resetTime |-> now + RATE_LIMIT_WINDOW]
                         ELSE requestCounts[k]]
  /\ answer' = [client |-> clientId, status |-> 200, retryAfter |-> 0]

\* lines 45-50: answer 429
Reject(clientId, live) ==
  /\ requestCounts' = [k \in live |-> requestCounts[k]]
  /\ answer' = [client |-> clientId, status |-> 429,
                retryAfter |-> CeilSeconds(requestCounts[clientId].resetTime - now)]

\* lines 52-54: count++ and next()
Admit(clientId, live) ==
  /\ requestCounts' = [k \in live |->
                         IF k = clientId
                         THEN [requestCounts[k] EXCEPT !.count = @ + 1]
                         ELSE requestCounts[k]]
  /\ answer' = [client |-> clientId, status |-> 200, retryAfter |-> 0]

\* the limiter that compares with > where the code has >=
RateLimitedLate(clientId, live) ==
  IF clientId \notin live THEN StartWindow(clientId, live)
  ELSE IF requestCounts[clientId].count > RATE_LIMIT_MAX_REQUESTS
       THEN Reject(clientId, live)
  ELSE Admit(clientId, live)

\* lines 34-54 after the clean-up; an entry that is left has not expired
RateLimited(clientId, live) ==
  IF clientId \notin live THEN StartWindow(clientId, live)
  ELSE IF requestCounts[clientId].count >= RATE_LIMIT_MAX_REQUESTS
       THEN Reject(clientId, live)
  ELSE Admit(clientId, live)

\* lines 23-55: a request of the client; status 200 stands for next()
rateLimiter(clientId) ==
  /\ RateLimited(clientId, LiveEntries)
  /\ UNCHANGED <<now, normVars, routeVars, promptVars>>

\* the instants just before, at and just after a resetTime
Instants ==
  {requestCounts[k].resetTime + d : k \in DOMAIN requestCounts, d \in {-1, 0, 1}}

\* time passes
ClockAdvances(t) ==
  /\ t \in Instants /\ t > now /\ t <= MaxClock
  /\ now' = t
  /\ UNCHANGED <<requestCounts, answer, normVars, routeVars, promptVars>>

(***************************************************************************)
(* Specifications.  Spec: parseAIResponse under every answer of the model. *)
(* EvalSpec: the requests to POST /api/evaluate.  EvalFairSpec: the same,   *)
(* with what the event loop guarantees: a timer that was set fires.        *)
(***************************************************************************)
Init == NormInit /\ RouteQuiet /\ PromptQuiet /\ LimiterInit

\* nothing was answered yet
Fresh == pc = "input" /\ kind = "empty"

Next ==
  \/ \E c \in RawTokens : TypeToken(c)
  \/ /\ Fresh
     /\ \E ov \in OverallOpts, sc \in ScoresOpts, sm \in SummaryOpts, extra \in Extras :
          EmitObject(ov, sc, sm, extra)
  \/ /\ Fresh
     /\ \E ov \in OverallOpts, sc \in ScoresOpts, sm \in SummaryOpts, l \in Prose,
           t \in Prose :
          EmitWithProse(ov, sc, sm, l, t)
  \/ /\ Fresh
     /\ \E ov \in OverallOpts, sc \in ScoresOpts, sm \in SummaryOpts, extra \in TailExtras,
           scoresLast \in BOOLEAN :
          \E k \in 1..(Len(Stringify(MakeObject(ov, sc, sm, extra, scoresLast))) - 1) :
            EmitTruncated(ov, sc, sm, extra, scoresLast, k)
  \/ EmitNonString
  \/ \E tag \in FenceTags : WrapInFence(tag)
  \/ Normalize

Spec == Init /\ [][Next]_vars

EvalInit == NormInit /\ RouteInit /\ PromptQuiet /\ LimiterInit

EvalNext ==
  \/ \E r \in Reqs, rt \in Routes, u \in Users, t \in TaskIds : Arrive(r, rt, u, t)
  \/ \E r \in Reqs : FetchTask(r)
  \/ \E r \in Reqs : MarkProcessing(r)
  \/ \E r \in Reqs : StartEvaluation(r)
  \/ \E r \in Reqs, raw \in RawAnswers : ModelResolves(r, raw)
  \/ \E r \in Reqs, err \in UpstreamErrors : ModelRejects(r, err)
  \/ \E r \in Reqs : TimerFires(r)
  \/ \E r \in Reqs, ok \in BOOLEAN : InsertEvaluation(r, ok)
  \/ \E r \in Reqs : MarkCompleted(r)

EvalSpec == EvalInit /\ [][EvalNext]_vars

EvalFairSpec == EvalSpec /\ \A r \in Reqs : WF_vars(TimerFires(r))

\* the paywall: requests of the owner of the task, reads and payments
PaidAnswers ==
  { Stringify(GoodAnswer),
    Stringify(MakeObject(JNum(80), FullScores, JStr(<<"Good">>),
                         Member(<<"strengths">>, JNum(5)), FALSE)) }

PayInit == NormInit /\ RouteQuiet /\ PromptQuiet /\ LimiterInit

PayNext ==
  \/ \E r \in Reqs, rt \in Routes : Arrive(r, rt, "alice", "task")
  \/ \E r \in Reqs : FetchTask(r)
  \/ \E r \in Reqs : MarkProcessing(r)
  \/ \E r \in Reqs : StartEvaluation(r)
  \/ \E r \in Reqs, raw \in PaidAnswers : ModelResolves(r, raw)
  \/ \E r \in Reqs : InsertEvaluation(r, TRUE)
  \/ \E r \in Reqs : MarkCompleted(r)
  \/ \E u \in Users : GetEvaluations(u)
  \/ \E u \in Users, id \in EvaluationIds : GetPreview(u, id)
  \/ \E u \in Users, id \in EvaluationIds : GetFull(u, id)
  \/ \E u \in Users, id \in EvaluationIds, insertOk \in BOOLEAN :
       CreateOrder(u, id, insertOk)
  \/ \E u \in Users, order \in 1..MaxPayments, unlockOk \in BOOLEAN :
       VerifyPayment(u, order, unlockOk)
  \/ \E id \in EvaluationIds \cup {0}, order \in 0..MaxPayments : PaymentWebhook(id, order)

PaySpec == PayInit /\ [][PayNext]_vars

\* the environment changes while requests are served
EnvInit == NormInit /\ RouteQuiet /\ PromptQuiet /\ LimiterInit

EnvNext ==
  \/ \E name \in EnvNames : \E v \in EnvValues(name) : SetEnv(name, v)
  \/ \E key \in {Unset, ValidKey, RotatedKey} : SetKey(key)
  \/ \E r \in Reqs, rt \in Routes : Arrive(r, rt, "alice", "task")
  \/ \E r \in Reqs : FetchTask(r)
  \/ \E r \in Reqs : MarkProcessing(r)
  \/ \E r \in Reqs : StartEvaluation(r)
  \/ \E r \in Reqs : ModelResolves(r, Stringify(GoodAnswer))
  \/ \E r \in Reqs : ModelRejects(r, [status |-> 401, message |-> TRUE])
  \/ \E r \in Reqs : TimerFires(r)
  \/ \E r \in Reqs : InsertEvaluation(r, TRUE)
  \/ \E r \in Reqs : MarkCompleted(r)

EnvSpec == EnvInit /\ [][EnvNext]_vars

\* a credential of any length, rejected by the upstream
KeyInit ==
  /\ NormInit /\ apiKey = Unset /\ environment = NoOverrides /\ Loaded /\ TablesInit
  /\ PromptQuiet /\ LimiterInit

KeyNext ==
  \/ \E c \in KeyAlphabet : TypeKeyChar(c)
  \/ \E r \in Reqs, rt \in Routes : Arrive(r, rt, "alice", "task")
  \/ \E r \in Reqs : FetchTask(r)
  \/ \E r \in Reqs : MarkProcessing(r)
  \/ \E r \in Reqs : StartEvaluation(r)
  \/ \E r \in Reqs : ModelRejects(r, [status |-> 401, message |-> TRUE])

KeySpec == KeyInit /\ [][KeyNext]_vars

\* constructEvaluationPrompt under every task, while the environment changes
PromptInit ==
  NormInit /\ RouteQuiet /\ taskData \in Tasks /\ prompts = <<>> /\ LimiterInit

PromptNext ==
  \/ BuildPrompt
  \/ \E name \in EnvNames : \E v \in EnvValues(name) : SetEnv(name, v)

PromptSpec == PromptInit /\ [][PromptNext]_vars

\* the rate limiter under the requests of two clients
LimitInit == NormInit /\ RouteQuiet /\ PromptQuiet /\ LimiterInit

LimitNext ==
  \/ \E c \in Clients : rateLimiter(c)
  \/ \E t \in Instants : ClockAdvances(t)

LimitSpec == LimitInit /\ [][LimitNext]_vars

(***************************************************************************)
(* ScanSpec: parseAIResponse under every short text of braces, quotes and  *)
(* backslashes, the characters the recovery scan of lines 353-390 reads.   *)
(***************************************************************************)
MaxScanLen == 6

ScanTokens == {"{", "}", "\"", "\\", "a"}

\* the model answers with one more character of ScanTokens
TypeScanToken(c) ==
  /\ pc = "input" /\ kind \in {"empty", "raw"} /\ fence = "none"
  /\ Len(response) < MaxScanLen
  /\ kind' = "raw"
  /\ response' = Append(response, c)
  /\ unfenced' = response'
  /\ UNCHANGED <<pc, emitted, object, lead, trail, fence, result>>
  /\ UNCHANGED <<routeVars, promptVars, limiterVars>>

ScanNext ==
  \/ \E c \in ScanTokens : TypeScanToken(c)
  \/ Normalize

ScanSpec == Init /\ [][ScanNext]_vars

(***************************************************************************)
(* Properties of the normalizer.                                           *)
(***************************************************************************)
Done == pc = "done"

ScoreKeys == {<<"readability">>, <<"efficiency">>, <<"maintainability">>, <<"security">>}

\* a mapping with the four numeric sub-scores
IsScoresMapping(v) == v.t = "object" /\ \A k \in ScoreKeys : IsNumber(Get(v, k))

\* the three mandatory fields are present and correctly typed
WellTyped(rec) ==
  /\ IsNumber(Get(rec, <<"overall_score">>))
  /\ IsScoresMapping(Get(rec, <<"scores">>))
  /\ Get(rec, <<"summary">>).t = "string"

\* the Fallback Record, field by field
IsFallback(rec) ==
  /\ rec.t = "object" /\ Len(rec.m) = 8
  /\ Get(rec, <<"overall_score">>) = JNum(50)
  /\ Get(rec, <<"scores">>).t = "object" /\ Len(Get(rec, <<"scores">>).m) = 4
  /\ \A k \in ScoreKeys : Get(Get(rec, <<"scores">>), k) = JNum(5)
  /\ Get(rec, <<"summary">>) = JStr(FallbackSummary)
  /\ \A k \in SequenceKeys : Get(rec, k) = JArr(<<>>)
  /\ Get(rec, <<"refactored_code">>) = JStr(<<>>)

\* the model answered with an object that has the three mandatory fields
HasMandatory(v) ==
  /\ Get(v, <<"overall_score">>) # JUndefined
  /\ Get(v, <<"scores">>) # JUndefined
  /\ Get(v, <<"summary">>) # JUndefined

SameMandatory(rec, v) ==
  /\ Get(rec, <<"overall_score">>) = Get(v, <<"overall_score">>)
  /\ Get(rec, <<"scores">>) = Get(v, <<"scores">>)
  /\ Get(rec, <<"summary">>) = Get(v, <<"summary">>)

\* C1: normalize is total: for every input it returns a record and no
\* exception escapes; whenever the body of the function fails (trim, parse,
\* recovery parse, field validation), the value returned is the Fallback Record.
C1_NormalizeTotal ==
  Done => /\ ~result.escaped
          /\ result.record.t = "object"
          /\ TryBody(response).threw => IsFallback(result.record)

\* the field validation failed on a repaired text and the Fallback Record was
\* returned
C1_Witness ==
  /\ Done /\ kind = "truncated" /\ result.how = "invalid-structure"
  /\ TryBody(response).threw /\ ~result.escaped /\ IsFallback(result.record)

\* C2: a returned record has overall_score, scores and summary present and
\* correctly typed, or it is exactly the Fallback Record.
C2_TypedOrFallback ==
  Done => WellTyped(result.record) \/ IsFallback(result.record)

\* C3: for a well-formed JSON object with the three mandatory fields, whatever
\* their admissible values (score 0 and the empty summary included), the
\* record returned has exactly the parsed mandatory values and is not the
\* Fallback Record.
C3_RoundTrip ==
  (Done /\ kind = "object" /\ fence = "none" /\ WellTyped(emitted))
    => SameMandatory(result.record, emitted) /\ ~IsFallback(result.record)

KeyOccurs(text, key) ==
  \E i \in 2..(Len(text) - 2) :
    text[i - 1] = "\"" /\ text[i] = key /\ text[i + 1] = "\"" /\ text[i + 2] = ":"

\* the text ends inside the string value of its last field
EndsInStringValue(text) ==
  LET q == LastIndexOf(text, "\"")
  IN  QuoteCount(text) % 2 = 1 /\ q >= 1 /\ text[q] = ":"

\* the summary of the text is complete
SummaryComplete(text) ==
  \E i \in 1..Len(text) : text[i] = "summary" /\ QuoteCount(SubSeq(text, i, Len(text))) >= 3

\* C4: a truncated object whose last field is an unterminated string and in
\* which the three mandatory keys occur gives a record with the mandatory
\* fields of the text intact (the dangling string closed or dropped), and
\* nothing is thrown.
C4_TruncatedStringRecovered ==
  (/\ Done /\ kind = "truncated" /\ fence = "none" /\ WellTyped(emitted)
   /\ EndsInStringValue(response)
   /\ \A key \in {"overall_score", "scores", "summary"} : KeyOccurs(response, key))
    => /\ ~result.escaped
       /\ Get(result.record, <<"overall_score">>) = Get(emitted, <<"overall_score">>)
       /\ Get(result.record, <<"scores">>) = Get(emitted, <<"scores">>)
       /\ SummaryComplete(response)
            => Get(result.record, <<"summary">>) = Get(emitted, <<"summary">>)

\* C5 as stated: with any leading and any trailing prose around one valid
\* JSON object that has the three mandatory fields, the record is that of the
\* object alone.
C5_AnyProse ==
  (Done /\ kind = "prose" /\ fence = "none" /\ HasMandatory(emitted))
    => result.record = parseAIResponse(object).record

\* C5 amended: the same, for leading prose without an opening brace (the
\* trailing prose is arbitrary).
C5_ProseWithoutOpeningBrace ==
  (Done /\ kind = "prose" /\ fence = "none" /\ HasMandatory(emitted)
   /\ IndexOf(lead, "{") = -1)
    => result.record = parseAIResponse(object).record

\* the object was recovered from between prose by the balanced scan
C5_Witness ==
  /\ Done /\ kind = "prose" /\ fence = "none" /\ WellTyped(emitted)
  /\ lead # <<>> /\ IndexOf(lead, "{") = -1 /\ IndexOf(trail, "}") # -1
  /\ result.how = "balanced"
  /\ SameMandatory(result.record, emitted)

\* C6: a text wrapped in a markdown fence, with or without a language tag,
\* gives the same record as the text unwrapped.
C6_FenceTransparent ==
  (Done /\ fence # "none") => result.record = parseAIResponse(unfenced).record

\* a fenced object with a language tag was parsed to its own record
C6_Witness ==
  /\ Done /\ fence = "json" /\ kind = "object" /\ WellTyped(emitted)
  /\ result.how = "strict" /\ SameMandatory(result.record, emitted)

\* there is a '{' with a '}' at or after it
HasBracePair(text) ==
  \E i \in 1..Len(text) : \E j \in i..Len(text) : text[i] = "{" /\ text[j] = "}"

\* C7: an input without an extractable brace pair gives exactly the Fallback
\* Record, also when it is valid JSON that is not an object.
C7_NoBracePairFallback ==
  (Done /\ response # NonString /\ ~HasBracePair(response)) => IsFallback(result.record)

\* valid JSON that is not an object was answered with the Fallback Record
C7_Witness ==
  /\ Done /\ response = <<"null">> /\ JsonParse(response).ok
  /\ result.how = "not-an-object" /\ IsFallback(result.record)

\* C8 as stated: in a valid parse each optional sequence field is empty when
\* its key is absent and the parsed value, whatever it is, when present.
C8_SequencesPassedThrough ==
  (Done /\ kind = "object" /\ fence = "none" /\ ~TryBody(response).threw)
    => \A k \in SequenceKeys :
         Get(result.record, k) = IF HasKey(emitted, k) THEN Get(emitted, k) ELSE JArr(<<>>)

\* C8 amended: the field is the parsed value when that value is truthy, and
\* the empty sequence when the key is absent or its value is falsy (null,
\* false, 0, the empty string).
C8_TruthySequencesPassedThrough ==
  (Done /\ kind = "object" /\ fence = "none" /\ ~TryBody(response).threw)
    => \A k \in SequenceKeys :
         Get(result.record, k) = IF Truthy(Get(emitted, k)) THEN Get(emitted, k) ELSE JArr(<<>>)

\* a sequence field that is not a sequence was passed through
C8_Witness ==
  /\ Done /\ kind = "object" /\ fence = "none" /\ ~TryBody(response).threw
  /\ Get(emitted, <<"strengths">>) = JStr(<<"none">>)
  /\ Get(result.record, <<"strengths">>) = JStr(<<"none">>)
  /\ Get(result.record, <<"resources">>) = JArr(<<>>)

(***************************************************************************)
(* Properties of the deadline race.                                        *)
(***************************************************************************)
Settled == {"fulfilled", "rejected"}

\* the error is the timeout error and its message has the deadline, rounded
\* to seconds
IsTimeoutOf(value, ms) ==
  /\ value.kind = "timeout"
  /\ 2 * (value.seconds * 1000 - ms) <= 1000
  /\ 2 * (ms - value.seconds * 1000) <= 1000

\* C9: a request whose model call never settles does not hang: the deadline
\* timer fires and the request fails with the timeout error, whose message
\* carries the configured deadline.
C9_DeadlineEndsTheWait ==
  \A r \in Reqs :
    (req[r].pc = "racing")
      ~> (\/ req[r].call # "pending"
          \/ /\ req[r].pc = "failed" /\ req[r].race = "rejected"
             /\ IsTimeoutOf(req[r].raceValue, timeoutMs))

\* a request timed out after 2 seconds (1500 ms) while its model call was
\* still pending
C9_Witness ==
  \E r \in Reqs :
    /\ req[r].pc = "failed" /\ req[r].call = "pending" /\ req[r].timer = "fired"
    /\ timeoutMs = 1500 /\ req[r].raceValue.kind = "timeout" /\ req[r].raceValue.seconds = 2

\* C10: the model call and the timer are started together; the outcome is
\* that of the one that settles first; the later settlement of the other one
\* changes neither the outcome nor the evaluations table nor the status of
\* the task, and a request that timed out has no evaluation row.
C10_FirstSettlementDecides ==
  [][\A r \in Reqs :
       /\ (req'[r].timer = "none") = (req'[r].call = "none")
       /\ (req[r].race = "pending" /\ req'[r].race # "pending")
            => /\ req[r].timer = "armed" /\ req[r].call = "pending"
               /\ \/ /\ req'[r].timer = "fired" /\ req'[r].call = "pending"
                     /\ req'[r].race = "rejected" /\ req'[r].raceValue.kind = "timeout"
                  \/ /\ req'[r].timer = "armed" /\ req'[r].call = "resolved"
                     /\ req'[r].race = "fulfilled" /\ req'[r].raceValue = req'[r].callValue
                  \/ /\ req'[r].timer = "armed" /\ req'[r].call = "rejected"
                     /\ req'[r].race = "rejected" /\ req'[r].raceValue = req'[r].callValue
       /\ req[r].race \in Settled
            => req'[r].race = req[r].race /\ req'[r].raceValue = req[r].raceValue
       /\ (req[r].race \in Settled /\ (req'[r].call # req[r].call \/ req'[r].timer # req[r].timer))
            => /\ evaluations' = evaluations /\ taskStatus' = taskStatus
               /\ req'[r].pc = req[r].pc /\ req'[r].status = req[r].status
       /\ req'[r].raceValue.kind = "timeout" => \A row \in evaluations' : row.id # r
    ]_vars

\* the model answered after the deadline had failed the request, and the
\* timer of another request fired after its evaluation was stored
C10_Witness ==
  /\ \E r \in Reqs :
       /\ req[r].pc = "failed" /\ req[r].raceValue.kind = "timeout"
       /\ req[r].call = "resolved" /\ \A row \in evaluations : row.id # r
  /\ \E r \in Reqs :
       /\ req[r].pc = "completed" /\ req[r].timer = "fired" /\ req[r].race = "fulfilled"
       /\ \E row \in evaluations : row.id = r

(***************************************************************************)
(* Properties of the evaluation requests.                                  *)
(***************************************************************************)
\* C11: a request made while no credential is configured fails with the
\* configuration error, and neither the deadline timer is started nor a
\* chat-completion call made for it, on the complete and the streaming route.
C11_NoTimerWithoutCredential ==
  \A r \in Reqs :
    (KeyMissing(apiKey) /\ req[r].pc \notin {"idle", "fetching", "marking", "starting"}
       /\ req[r].failure.kind # "not-found")
      => /\ req[r].pc = "failed" /\ req[r].failure.kind = "configuration"
         /\ req[r].timer = "none" /\ req[r].calls = 0

\* the kinds of error of a model call that was made and failed
CallFailures == {"authentication", "rate-limit", "upstream"}

\* C12: when the model call fails, the error is what the request ends with:
\* no record is returned for the call, the request has no evaluation row and
\* is not answered with a record; a request whose record is the Fallback
\* Record had a model call that succeeded with a text that could not be
\* parsed.
C12_CallFailurePropagates ==
  \A r \in Reqs :
    /\ req[r].callValue.kind \in CallFailures
         => /\ req[r].call = "rejected" /\ req[r].callValue.record = JUndefined
            /\ req[r].race = "rejected" /\ req[r].raceValue.record = JUndefined
            /\ req[r].pc = "failed" /\ req[r].failure.record = JUndefined
            /\ req[r].raceValue = req[r].callValue
                 => /\ req[r].failure.kind = req[r].callValue.kind
                    /\ req[r].failure.text # <<>>
            /\ \A row \in evaluations : row.id # r
    /\ (req[r].raceValue.kind = "record" /\ IsFallback(req[r].raceValue.record))
         => /\ req[r].call = "resolved" /\ req[r].upstream = NoError
            /\ TryBody(req[r].raw).threw

\* one request failed with the rate-limit error of the upstream, another one
\* stored the Fallback Record of an answer that is not JSON
C12_Witness ==
  /\ \E r \in Reqs :
       /\ req[r].pc = "failed" /\ req[r].failure.kind = "rate-limit"
       /\ req[r].upstream.status = 429 /\ req[r].calls = 1
  /\ \E r \in Reqs :
       /\ req[r].pc = "completed" /\ req[r].raw # <<>>
       /\ \E row \in evaluations : row.id = r /\ IsFallback(row.detailed_analysis)

\* C13: the message of the error for an upstream 401 never has the whole
\* configured credential in it, whatever the credential and its length.
C13_CredentialNeverWhole ==
  \A r \in Reqs :
    (req[r].callValue.kind = "authentication" /\ req[r].callValue.status = 401)
      => ~Includes(req[r].callValue.text, apiKey)

\* the state of the evaluation request f of the orchestrator: the request
\* starts when the route has fetched the task and marked it as processing
\* ("none" before that and when the route fails with 404), and its outcome is
\* that of the race
Phase(f) ==
  IF f.pc \in {"idle", "fetching", "marking"} \/ f.failure.kind = "not-found" THEN "none"
  ELSE IF f.pc = "starting" THEN "pending"
  ELSE IF f.race = "pending" THEN "in_flight"
  ELSE IF f.race = "fulfilled" THEN "completed"
  ELSE IF f.raceValue.kind = "timeout" THEN "timed_out"
  ELSE "failed"

Terminal == {"completed", "failed", "timed_out"}

\* the steps of the state machine pending -> in_flight -> terminal
InOrder(from, to) ==
  \/ from = "none" /\ to = "pending"
  \/ from = "pending" /\ to = "in_flight"
  \/ from = "in_flight" /\ to \in Terminal

\* no request stays in flight forever
NeverStuck == \A r \in Reqs : (Phase(req[r]) = "in_flight") ~> (Phase(req[r]) \in Terminal)

\* C14 as stated: every request goes from pending to in_flight and from there
\* to exactly one of completed, failed and timed_out, no state is skipped, a
\* terminal state is never left, and no request stays in flight forever.
C14_EveryStatePassed ==
  /\ [][\A r \in Reqs :
          Phase(req'[r]) # Phase(req[r]) => InOrder(Phase(req[r]), Phase(req'[r]))]_vars
  /\ NeverStuck

\* C14: the same, except that a request made while no credential is
\* configured fails with the configuration error straight from pending: no
\* model call is ever in flight for it.
C14_StatesInOrder ==
  /\ [][\A r \in Reqs :
          Phase(req'[r]) # Phase(req[r])
            => \/ InOrder(Phase(req[r]), Phase(req'[r]))
               \/ /\ Phase(req[r]) = "pending" /\ Phase(req'[r]) = "failed"
                  /\ KeyMissing(apiKey) /\ req'[r].failure.kind = "configuration"
                  /\ req'[r].calls = 0]_vars
  /\ NeverStuck

\* a request timed out with its model call still pending, and another one
\* completed
C14_Witness ==
  /\ \E r \in Reqs :
       /\ Phase(req[r]) = "timed_out" /\ req[r].call = "pending" /\ req[r].calls = 1
  /\ \E r \in Reqs : Phase(req[r]) = "completed" /\ req[r].pc = "completed"

\* C15: a request makes at most one chat-completion call, and once it has
\* failed (by an error of the call or by the deadline) no further call is
\* made for it and the failure it ended with stays its result.
C15_SingleCall ==
  [][\A r \in Reqs :
       /\ req'[r].calls <= 1
       /\ req[r].pc = "failed"
            => /\ req'[r].pc = "failed" /\ req'[r].calls = req[r].calls
               /\ req'[r].failure = req[r].failure /\ req'[r].status = req[r].status
               /\ req'[r].call \in {req[r].call, "resolved", "rejected"}]_vars

\* one request failed by an upstream error and its timer fired afterwards;
\* another one timed out and the model answered afterwards; each made one call
C15_Witness ==
  /\ \E r \in Reqs :
       /\ req[r].pc = "failed" /\ req[r].failure.kind = "upstream"
       /\ req[r].timer = "fired" /\ req[r].calls = 1
  /\ \E r \in Reqs :
       /\ req[r].pc = "failed" /\ req[r].failure.kind = "timeout"
       /\ req[r].call = "resolved" /\ req[r].calls = 1

\* the kind of error the claim asks for an upstream error with that status
KindOfStatus(status) ==
  IF status \in {401, 403} THEN "authentication"
  ELSE IF status = 429 THEN "rate-limit"
  ELSE "upstream"

\* C19: a failed upstream call gives the authentication error for the status
\* 401 or 403, the rate-limit error for 429 and the upstream error for every
\* other failure, and the message of the upstream error has the status code
\* of the upstream and its message in it whenever the upstream error has them.
C19_ErrorKinds ==
  \A r \in Reqs :
    (req[r].call = "rejected" /\ req[r].calls = 1)
      => /\ req[r].callValue.kind = KindOfStatus(req[r].upstream.status)
         /\ req[r].callValue.kind = "upstream"
              => /\ req[r].upstream.status # 0
                      => Includes(req[r].callValue.text, <<ToString(req[r].upstream.status)>>)
                 /\ req[r].upstream.message
                      => Includes(req[r].callValue.text, <<UpstreamMessage>>)

(***************************************************************************)
(* Properties of the event stream.                                         *)
(***************************************************************************)
Milestones == <<"initializing", "analyzing", "sending", "processing", "parsing", "saving">>

\* the names of the events
Names(events) == [i \in 1..Len(events) |-> events[i].name]

\* the events of request r are the first milestones in their order, followed,
\* once the stream has ended, by one error event or, after all milestones and
\* with the row of the request stored, by one complete event with its id
StreamInOrder(r) ==
  \E k \in 0..Len(Milestones) :
    \/ ~req[r].ended /\ Names(req[r].events) = SubSeq(Milestones, 1, k)
    \/ /\ req[r].ended
       /\ Names(req[r].events) = Append(SubSeq(Milestones, 1, k), "error")
       /\ req[r].events[k + 1].type = "error"
    \/ /\ req[r].ended /\ k = Len(Milestones)
       /\ Names(req[r].events) = Append(Milestones, "complete")
       /\ req[r].events[k + 1].type = "complete"
       /\ \E row \in evaluations :
            /\ row.task_id = req[r].task /\ row.user_id = req[r].user
            /\ row.detailed_analysis = req[r].raceValue.record
            /\ req[r].events[k + 1].id = row.id

\* C16: the events of a stream are written in the order of the milestones,
\* the stream ends with exactly one terminal event, complete or error, after
\* which nothing is written, and a complete event is written only after the
\* row was stored and carries its id.
C16_OrderedStream ==
  /\ [](\A r \in Reqs : StreamInOrder(r))
  /\ [][\A r \in Reqs :
          req[r].ended => req'[r].ended /\ req'[r].events = req[r].events]_vars

\* one stream ended with the complete event after all six milestones, another
\* one with the error event of the deadline, and the model answered afterwards
C16_Witness ==
  /\ \E r \in Reqs :
       /\ req[r].route = "stream" /\ req[r].ended /\ Len(req[r].events) = 7
       /\ req[r].events[7].type = "complete"
  /\ \E r \in Reqs :
       /\ req[r].route = "stream" /\ req[r].ended /\ Len(req[r].events) = 4
       /\ req[r].events[4].type = "error" /\ req[r].failure.kind = "timeout"
       /\ req[r].call = "resolved"

(***************************************************************************)
(* Properties of the configuration.                                        *)
(***************************************************************************)
\* the configuration the environment asks for at this moment
CurrentConfig ==
  CallConfig(apiKey, environment, AiConfig(environment),
             EnvNumber(environment["EVALUATION_TIMEOUT_MS"]))

\* C17: a chat-completion call is made with the credential, base URL, model,
\* temperature, top_p, max_tokens and deadline that are in the environment at
\* the time of the call.
C17_EnvironmentReadPerCall ==
  [][\A r \in Reqs : req'[r].calls > req[r].calls => req'[r].used = CurrentConfig]_vars

(***************************************************************************)
(* Properties of the paywall and of the stored evaluations.                *)
(***************************************************************************)
\* the body has nothing of the paid part of row and at most its first three
\* strengths
PreviewOnly(body, row) ==
  /\ body.improvements = JUndefined
  /\ body.refactored_code = JUndefined
  /\ body.detailed_analysis = JUndefined
  /\ body.strengths.t = "array"
       => /\ Len(body.strengths.m) <= 3
          /\ row.strengths.t = "array"
          /\ body.strengths.m = SubSeq(row.strengths.m, 1, Len(body.strengths.m))

\* the answer of GET /:id/full to the caller: 404 without a row of the
\* caller with that id, 403 while the row is locked
FullGuarded(body, rows) ==
  LET mine == {row \in rows : row.id = body.asked /\ row.user_id = body.user}
  IN  /\ mine = {} => body.status = 404
      /\ (\E row \in mine : ~row.is_unlocked) => body.status = 403
      /\ body.status = 200 => \E row \in mine : row.is_unlocked /\ body.id = row.id

\* C18: while an evaluation is locked no response has its improvements,
\* refactored_code or detailed_analysis, and at most its first three
\* strengths; GET /:id/full answers 403 for a locked evaluation of the caller
\* and 404 for an evaluation that is not the caller's.
C18_Paywall ==
  /\ [](\A row \in evaluations :
          (reply.id = row.id /\ ~row.is_unlocked) => PreviewOnly(reply, row))
  /\ [][(reply'.endpoint = "full" /\ reply' # reply) => FullGuarded(reply', evaluations)]_vars

\* the owner of a locked evaluation with four strengths, improvements and
\* refactored code was refused the full evaluation
C18_Witness ==
  /\ reply.endpoint = "full" /\ reply.status = 403 /\ reply.user = "alice"
  /\ \E row \in evaluations :
       /\ row.id = reply.asked /\ ~row.is_unlocked /\ row.user_id = "alice"
       /\ Len(row.strengths.m) = 4 /\ row.improvements.m # <<>>

\* the row as it was inserted, whatever its lock
AsInserted(row) == [row EXCEPT !.is_unlocked = FALSE, !.unlocked_at = "never"]

\* a completed request has exactly one row, a failed one has none
OneRowPerCompletion ==
  \A r \in Reqs :
    /\ req[r].pc = "completed"
         => Cardinality({row \in evaluations : row.id = r}) = 1
    /\ req[r].pc = "failed" => \A row \in evaluations : row.id # r

\* rows are inserted locked and completed, and a stored row keeps its
\* content: only is_unlocked and unlocked_at ever change
RowsKeepContent ==
  /\ \A row \in evaluations' :
       (\A old \in evaluations : old.id # row.id)
         => /\ ~row.is_unlocked /\ row.evaluation_status = "completed"
            /\ req[row.id].pc = "inserting" /\ req'[row.id].pc = "completing"
  /\ \A old \in evaluations :
       \E row \in evaluations' : AsInserted(row) = AsInserted(old)
  /\ Cardinality(evaluations') <= Cardinality(evaluations) + 1

\* C20: a request that completes has inserted exactly one row, locked and
\* with the status completed, a request that fails or times out has inserted
\* none, and nothing but the unlocked flag and its timestamp changes in a
\* stored row.
C20_OneImmutableRow == []OneRowPerCompletion /\ [][RowsKeepContent]_vars

(***************************************************************************)
(* Properties of the recovery scan (src/lib/ai/prompts.ts:346-438).  The   *)
(* nesting of a text is defined here from the text alone, the way the      *)
(* specification words it, and compared with what the scanner computes.    *)
(***************************************************************************)
\* the text handed to the strict parse of line 341
CleanedOf(text) == ExtractBraces(StripFence(Trim(text)))

\* the scanner after the loop of lines 360-390
ScanOf(cleaned) == Scan(cleaned, IndexOf(cleaned, "{"), ScanInit)

\* the strict parse failed and the scan ended in the branch of lines 393-422
TruncatedCase(cleaned, st) ==
  /\ ~JsonParse(cleaned).ok /\ IndexOf(cleaned, "{") # -1
  /\ st.endIdx = -1 /\ st.lastValidEndIdx # -1 /\ st.braceCount > 0

\* the span from the first '{' up to the last-seen '}'
CandidateSpan(cleaned, st) == Substring(cleaned, IndexOf(cleaned, "{"), st.lastValidEndIdx + 1)

\* the span cut before its last '}', closed by a quote and a brace, then by
\* one brace per open brace
QuoteRepaired(span, open) ==
  Substring(span, 0, LastIndexOf(span, "}")) \o <<"\"", "}">> \o [k \in 1..open |-> "}"]

QuoteRepairApplied(cleaned, st) ==
  TruncatedCase(cleaned, st) /\ QuoteCount(CandidateSpan(cleaned, st)) % 2 = 1
    => RecoverText(cleaned).text = QuoteRepaired(CandidateSpan(cleaned, st), st.braceCount)

RECURSIVE BackslashRun(_, _)
BackslashRun(t, i) ==
  IF i > 1 /\ t[i - 1] = "\\" THEN 1 + BackslashRun(t, i - 1) ELSE 0

\* the character at position i follows an unescaped backslash
EscapedAt(t, i) == BackslashRun(t, i) % 2 = 1

\* position i is outside every string literal: it is not escaped and an even
\* number of unescaped quotes comes before it
OutsideString(t, i) ==
  /\ ~EscapedAt(t, i)
  /\ Cardinality({j \in 1..(i - 1) : t[j] = "\"" /\ ~EscapedAt(t, j)}) % 2 = 0

\* the braces opened and not closed outside of strings in the first i characters
DepthAt(t, i) ==
  Cardinality({j \in 1..i : t[j] = "{" /\ OutsideString(t, j)})
    - Cardinality({j \in 1..i : t[j] = "}" /\ OutsideString(t, j)})

Unmatched(t) == DepthAt(t, Len(t))

\* the repaired text closes exactly the braces its candidate span left open
BalancedRepair(cleaned, st) ==
  TruncatedCase(cleaned, st)
    => /\ Unmatched(RecoverText(cleaned).text) = 0
       /\ Len(RecoverText(cleaned).text) - Len(CandidateSpan(cleaned, st))
            = Unmatched(CandidateSpan(cleaned, st))

\* C23: after the truncation repair the braces of the repaired text are
\* balanced outside of strings: as many '}' are appended as '{' are unmatched
\* in the candidate span that was kept.
C23_RepairBalanced ==
  pc = "done" /\ response # NonString
    => BalancedRepair(CleanedOf(response), ScanOf(CleanedOf(response)))

\* the positions of t at which a '}' outside of strings returns the depth to zero
ZeroPoints(t) == {i \in 1..Len(t) : t[i] = "}" /\ OutsideString(t, i) /\ DepthAt(t, i) = 0}

FirstZeroPoint(t) == CHOOSE i \in ZeroPoints(t) : \A j \in ZeroPoints(t) : i <= j

\* t is the text from its first '{' on
BalancedSpan(cleaned, t) ==
  ~JsonParse(cleaned).ok /\ ZeroPoints(t) # {}
    => RecoverText(cleaned) =
         [ok |-> TRUE, text |-> SubSeq(t, 1, FirstZeroPoint(t)), how |-> "balanced"]

FromFirstBrace(cleaned) == Substring(cleaned, Max(IndexOf(cleaned, "{"), 0), Len(cleaned))

\* C24: when the strict parse fails and the depth of the text returns to zero,
\* the text that is parsed again is the span from the first '{' through the
\* first '}' at which the depth is zero, and nothing after it.
C24_BalancedSpanReparsed ==
  pc = "done" /\ response # NonString
    => BalancedSpan(CleanedOf(response), FromFirstBrace(CleanedOf(response)))

\* a text whose depth returns to zero before its end: the rest is discarded
C24_Witness ==
  /\ pc = "done" /\ response # NonString
  /\ RecoverText(CleanedOf(response)).how = "balanced"
  /\ Len(RecoverText(CleanedOf(response)).text) + 2 <= Len(CleanedOf(response))
  /\ result.how \in {"balanced", "invalid-structure"}

\* the scanner before it reads the character at index i (counted from 0)
ScannerBefore(cleaned, i) == Scan(SubSeq(cleaned, 1, i), IndexOf(cleaned, "{"), ScanInit)

\* the indexes the loop reads: from the first '{' until the break
IndexesRead(cleaned) ==
  {i \in 0..(Len(cleaned) - 1) :
     /\ IndexOf(cleaned, "{") # -1 /\ i >= IndexOf(cleaned, "{")
     /\ ScannerBefore(cleaned, i).endIdx = -1}

\* the scanner is in exactly one of its three modes
Mode(st) ==
  IF st.escapeNext THEN "escape-pending" ELSE IF st.inString THEN "in-string" ELSE "normal"

\* what reading the character at index i changes, and that the mode and the
\* depth before it are those of the text read so far
StepKeeps(cleaned, i, before, after) ==
  /\ after = ScanChar(before, cleaned[i + 1], i)
  /\ after.braceCount >= 0
  /\ Mode(before) = "escape-pending" /\ cleaned[i + 1] = "\""
       => after.inString = before.inString
  /\ Mode(before) = "in-string" /\ cleaned[i + 1] \in {"{", "}"}
       => after.braceCount = before.braceCount
  /\ before.escapeNext = EscapedAt(FromFirstBrace(cleaned), i + 1 - IndexOf(cleaned, "{"))
  /\ ~before.escapeNext
       => before.inString = ~OutsideString(FromFirstBrace(cleaned), i + 1 - IndexOf(cleaned, "{"))
  /\ before.braceCount = DepthAt(FromFirstBrace(cleaned), i - IndexOf(cleaned, "{"))

QuoteAfterBackslashKeeps(cleaned, i, before, after) ==
  i > 0 /\ cleaned[i] = "\\" /\ cleaned[i + 1] = "\"" => after.inString = before.inString

ScanModes(cleaned) ==
  \A i \in IndexesRead(cleaned) :
    StepKeeps(cleaned, i, ScannerBefore(cleaned, i), ScannerBefore(cleaned, i + 1))

\* C25 as stated: no quote that comes right after a backslash toggles the
\* string mode, no brace inside a string changes the depth, and the depth is
\* never negative.
C25_QuoteAfterBackslash ==
  pc = "done" /\ response # NonString
    => /\ ScanModes(CleanedOf(response))
       /\ \A i \in IndexesRead(CleanedOf(response)) :
            QuoteAfterBackslashKeeps(CleanedOf(response), i,
                                     ScannerBefore(CleanedOf(response), i),
                                     ScannerBefore(CleanedOf(response), i + 1))

\* C25, amended: the scan reads each character once, from the first '{' on;
\* a quote read while an escape is pending (after an unescaped backslash) does
\* not toggle the string mode, a brace read inside a string does not change
\* the depth, and the depth is never negative.
C25_ScannerModes ==
  pc = "done" /\ response # NonString => ScanModes(CleanedOf(response))

\* a text with an escaped quote and a brace inside a string
C25_Witness ==
  /\ pc = "done" /\ response # NonString
  /\ \E i, j \in IndexesRead(CleanedOf(response)) :
       /\ ScannerBefore(CleanedOf(response), i).escapeNext
       /\ CleanedOf(response)[i + 1] = "\""
       /\ Mode(ScannerBefore(CleanedOf(response), j)) = "in-string"
       /\ CleanedOf(response)[j + 1] \in {"{", "}"}

(***************************************************************************)
(* Properties of the prompt builder.                                       *)
(***************************************************************************)
ThreeBackticks == <<Backtick, Backtick, Backtick>>

\* the prompt holds the four texts of the task, the code as it is, inside a
\* fence that is tagged with the language
Embedded(prompt, t) ==
  /\ Includes(prompt, <<"- **Title**: ">> \o t.title.s \o <<"\n">>)
  /\ Includes(prompt, <<"- **Description**: ">> \o t.description.s \o <<"\n">>)
  /\ Includes(prompt, <<"- **Programming Language**: ">> \o t.programming_language.s
                        \o <<"\n">>)
  /\ Includes(prompt, ThreeBackticks \o t.programming_language.s \o <<"\n">>
                        \o t.code_content.s \o <<"\n">> \o ThreeBackticks)

\* the line of the category and the line of the difficulty carry the label
\* exactly for the fields of which unlabelled holds, the text of the field
\* otherwise
Labelled(prompt, t, unlabelled(_)) ==
  /\ Includes(prompt, <<"- **Category**: ", "General", "\n">>) <=> unlabelled(t.category)
  /\ Includes(prompt, <<"- **Difficulty Level**: ", "Intermediate", "\n">>)
       <=> unlabelled(t.difficulty_level)
  /\ ~unlabelled(t.category)
       => Includes(prompt, <<"- **Category**: ">> \o t.category.s \o <<"\n">>)
  /\ ~unlabelled(t.difficulty_level)
       => Includes(prompt, <<"- **Difficulty Level**: ">> \o t.difficulty_level.s \o <<"\n">>)

IsAbsent(v) == v \in {JUndefined, JNull}
IsAbsentOrEmpty(v) == v \in {JUndefined, JNull, JStr(<<>>)}

\* every task can be built, and what was built is the same each time
TotalAndPure ==
  /\ Len(prompts) < MaxBuilds => ENABLED BuildPrompt
  /\ \A i \in 1..Len(prompts) : prompts[i] = prompts[1] /\ Embedded(prompts[i], taskData)

\* C21 as stated: the builder returns a string for every task, the same
\* string for the same task, that embeds title, description, language and the
\* code in a fence tagged with the language, and it puts "General" and
\* "Intermediate" exactly when the category or the difficulty is absent.
C21_DefaultsWhenAbsent ==
  /\ TotalAndPure
  /\ \A i \in 1..Len(prompts) : Labelled(prompts[i], taskData, IsAbsent)

\* C21, amended: the same, with "General" and "Intermediate" put exactly
\* when the category or the difficulty is absent, null or the empty string.
C21_DefaultsWhenAbsentOrEmpty ==
  /\ TotalAndPure
  /\ \A i \in 1..Len(prompts) : Labelled(prompts[i], taskData, IsAbsentOrEmpty)

\* a task with an empty category, an absent difficulty and a backtick in its
\* code was built twice, with the environment changed
C21_Witness ==
  /\ Len(prompts) = MaxBuilds
  /\ taskData.category = JStr(<<>>) /\ taskData.difficulty_level = JUndefined
  /\ taskData.code_content.s = <<Backtick, "x">>
  /\ environment # NoOverrides
  /\ Includes(prompts[2], <<"- **Category**: ", "General", "\n">>)

(***************************************************************************)
(* Properties of the rate limiter.                                         *)
(***************************************************************************)
CountsInRange ==
  \A k \in DOMAIN requestCounts : requestCounts[k].count \in 1..RATE_LIMIT_MAX_REQUESTS

\* the step is a request of client c that the limiter answered
RequestOf(c) ==
  now' = now /\ answer'.client = c /\ <<requestCounts, answer>>' # <<requestCounts, answer>>

\* c has used up its window, which has not expired: 429, a retryAfter of at
\* least least seconds, and the count as it was
RejectedAtLimit(c, least) ==
  /\ c \in DOMAIN requestCounts
  /\ requestCounts[c].count = RATE_LIMIT_MAX_REQUESTS
  /\ ~(requestCounts[c].resetTime < now)
  => /\ answer'.status = 429 /\ answer'.retryAfter >= least
     /\ requestCounts'[c] = requestCounts[c]

\* the window of c has expired: the request is let through and starts a window
RestartedAfterReset(c) ==
  c \in DOMAIN requestCounts /\ requestCounts[c].resetTime < now
  => /\ answer'.status = 200
     /\ requestCounts'[c] = [count |-> 1, resetTime |-> now + RATE_LIMIT_WINDOW]

\* C26: every stored count is between 1 and 60; a request that arrives while
\* the count is 60 and the window has not expired is answered 429 with a
\* positive retryAfter and leaves the count as it is; the first request after
\* resetTime is let through and starts a window with count 1.
C26_SixtyPerWindow ==
  /\ []CountsInRange
  /\ [][\A c \in Clients :
          RequestOf(c) => RejectedAtLimit(c, 1) /\ RestartedAfterReset(c)]_vars

(***************************************************************************)
(* Properties of the payment flow and of the status of a task.             *)
(***************************************************************************)
\* a payment of the owner of the row, for the row, that was marked success
PaidByOwner(row) ==
  \E p \in DOMAIN payments :
    /\ payments[p].evaluation_id = row.id /\ payments[p].user_id = row.user_id
    /\ payments[p].payment_status = "success"

\* the rows the step unlocks
NewlyUnlocked ==
  {row \in evaluations' : row.is_unlocked /\ \E old \in evaluations : old.id = row.id /\ ~old.is_unlocked}

\* C27: an unlocked evaluation has a payment of its owner that was marked
\* success, and the only step that unlocks an evaluation is the verification
\* of a payment by its authenticated owner.
C27_UnlockedOnlyWhenPaid ==
  /\ [](\A row \in evaluations : row.is_unlocked => PaidByOwner(row))
  /\ [][\A row \in NewlyUnlocked :
          reply'.endpoint = "verify" /\ reply'.user = row.user_id]_vars

\* C28: when verify has answered with success, the evaluation of the payment
\* is unlocked in the store and the payment is marked success.
C28_VerifiedMeansUnlocked ==
  reply.endpoint = "verify" /\ reply.status = 200
    => /\ \E row \in evaluations : row.id = reply.id /\ row.is_unlocked
       /\ \E p \in DOMAIN payments :
            payments[p].evaluation_id = reply.id /\ payments[p].payment_status = "success"

\* the step is an answer of create-order
OrderAnswered == reply'.endpoint = "create-order" /\ <<reply, payments>>' # <<reply, payments>>

\* what create-order answers and what it leaves in the store
OrderFrame ==
  /\ evaluations' = evaluations
  /\ reply'.status = 404 <=> RowsOf(reply'.asked, reply'.user) = {}
  /\ reply'.status = 400
       <=> \E row \in RowsOf(reply'.asked, reply'.user) : row.is_unlocked
  /\ reply'.status # 200 => payments' = payments
  /\ reply'.status = 200
       => /\ payments' = Append(payments, [user_id |-> reply'.user,
                                           evaluation_id |-> reply'.asked,
                                           payment_status |-> "pending"])
          /\ \E row \in RowsOf(reply'.asked, reply'.user) : ~row.is_unlocked

\* C29: create-order answers 404 for an evaluation that is not one of the
\* caller and 400 for one that is unlocked, and inserts no payment then; when
\* it succeeds it inserts one pending payment and leaves the evaluation locked.
C29_OrderFrame == [][OrderAnswered => OrderFrame]_vars

\* an order of alice was created after bob was refused one for her evaluation
C29_Witness ==
  /\ Len(payments) = 1 /\ payments[1].payment_status = "pending"
  /\ payments[1].user_id = "alice"
  /\ reply.endpoint = "create-order" /\ reply.user = "bob" /\ reply.status = 404
  /\ \E row \in evaluations : row.id = reply.asked /\ ~row.is_unlocked

\* the request has written 'processing': it is past lines 58-62 / 155-159
Marked(f) == f.pc \notin {"idle", "fetching", "marking"} /\ f.failure.kind # "not-found"

\* the requests for task t that have written 'completed'
Completers(t) ==
  {r \in Reqs : /\ req[r].task = t /\ req[r].pc \in {"completed", "failed"}
                /\ \E row \in evaluations : row.id = r}

\* what the stored status tells
StatusTells ==
  \A t \in DOMAIN taskStatus :
    /\ taskStatus[t] \in {"pending", "processing", "completed"}
    /\ taskStatus[t] = "completed"
         => Completers(t) # {} /\ \E row \in evaluations : row.task_id = t
    /\ \A r \in Reqs :
         req[r].task = t /\ Marked(req[r])
           => /\ taskStatus[t] # "pending"
              /\ req[r].pc = "failed" /\ Completers(t) = {} => taskStatus[t] = "processing"

\* the two writes of a handler: 'processing' before its model call,
\* 'completed' once its row is inserted
StatusWrites ==
  \A t \in DOMAIN taskStatus :
    taskStatus'[t] # taskStatus[t]
      => \E r \in Reqs :
           /\ req[r].task = t
           /\ \/ /\ taskStatus'[t] = "processing"
                 /\ req[r].pc = "marking" /\ req[r].calls = 0 /\ req'[r].calls = 0
              \/ /\ taskStatus'[t] = "completed"
                 /\ req[r].pc = "completing" /\ \E row \in evaluations : row.id = r

\* a handler that ends with a failed call, a deadline or a failed insert
\* writes no status
FailureWritesNothing ==
  \A r \in Reqs :
    /\ req[r].pc # "failed" /\ req'[r].pc = "failed"
    /\ req'[r].failure.kind # "type-error"
    => taskStatus' = taskStatus

\* C30: the status of a task becomes 'processing' before the model call and
\* 'completed' only after the row was inserted; a handler whose call fails,
\* whose deadline fires or whose insert fails writes no status, so the status
\* stays 'processing' and is never 'pending' again, and 'completed' implies a
\* row of the task.
C30_TaskStatus == []StatusTells /\ [][StatusWrites /\ FailureWritesNothing]_vars

\* one request for the task timed out after it had written 'processing', the
\* other failed to insert its row: the status is still 'processing'
C30_Witness ==
  /\ taskStatus["task"] = "processing"
  /\ \E r, q \in Reqs :
       /\ req[r].pc = "failed" /\ req[r].failure.kind = "timeout" /\ req[r].task = "task"
       /\ req[q].pc = "failed" /\ req[q].failure.kind = "save-failed" /\ req[q].task = "task"

====
